---------------------------- MODULE Spec2Model ----------------------------
(***************************************************************************)
(* Model of the Quabo control library (src/QuaboAutoTest.py).              *)
(* QuaboConfig: the per-chip register images, the bit packer _set_bits /   *)
(* _set_bits_4, the 492-byte register command built by _make_maroc_cmd and *)
(* its echo verification in SetMarocParams.  Util.reverse_bits.  HKRecv    *)
(* and DataRecv: RecvData and the packet decoders of ParseData.  The       *)
(* 64-byte simple commands (SetHv, SetDataPktDest, DaqParamsConfig), the   *)
(* checks of QuaboTest and SiPMSimTest (CheckResults, _CheckPatternMatch,  *)
(* CheckHKPktVals, CheckPHPeaks), the flash regions of tftpw and the       *)
(* stages of src/upload_firmware.py.                                       *)
(***************************************************************************)
EXTENDS Integers, Sequences, FiniteSets, TLC

VARIABLES
    MAROC_regs,     \* self._MAROC_regs: chip -> (byte index -> byte)
    quabo_config,   \* self.quabo_config['maroc']: insertion-ordered <<tag, vals>>
    sent,           \* every frame handed to send(), oldest first
    ret,            \* outcome of the last call (return value or exception)
    reply,          \* what recv() returned to the last SetMarocParams
    call,           \* the last call and its arguments
    pre_regs,       \* the register images when the last call started
    swapped_regs,   \* the images the last pair of writes gives in the other order
    receiver,       \* the HKRecv / DataRecv object: its class, self.data, self.timestamp
    returned,       \* the value the last call returned to its caller
    hv_config,      \* self.quabo_config['hv']: channel i -> HV_i
    dest_ips,       \* self.quabo_config['dest_ips']: key -> destination string
    daq_params,     \* the caller's DAQ_PARAMS object
    tftp            \* the tftpw client: the uploads it made, and the script's stage

\* the configuration and objects outside the register command and the receivers
ext_vars == <<hv_config, dest_ips, daq_params, tftp>>

vars == <<MAROC_regs, quabo_config, sent, ret, reply, call, pre_regs, swapped_regs,
          receiver, returned, ext_vars>>

\* the state of QuaboConfig, and the state outside it
config_vars == <<MAROC_regs, quabo_config, sent, reply, pre_regs, swapped_regs>>

-----------------------------------------------------------------------------
(* Program constants *)

SERIAL_COMMAND_LENGTH == 829
NCHIPS == 4
IMAGE_BYTES == 104
FRAME_BYTES == 492
MAX_FIELD_WIDTH == 16

Chips == 0 .. (NCHIPS - 1)
ByteIdx == 0 .. (IMAGE_BYTES - 1)

(* Bounds of the input sets *)
MaxLowPos == 17      \* low bit positions 0..MaxLowPos
MaxTail == 18        \* high bit positions 829-MaxTail..829
MaxWidth == 17       \* field widths 1..MaxWidth (16 is the widest accepted)
MaxPairPos == 8      \* first position of a pair of writes
MaxGap == 1          \* free bits between the two fields of a pair
MaxDiffs == 2        \* bytes of an echoed frame that differ from the sent one
MaxConfigs == 1      \* MarocParamConfig calls in one run
MaxBuilds == 2       \* SetMarocParams calls in one run
MaxRevWidth == 16    \* widths 1..MaxRevWidth handed to reverse_bits
MaxRecv == 3         \* packets asked of one RecvData call

-----------------------------------------------------------------------------
(* Integer bit operations on Python ints restricted to what the code uses *)

Bit(x, i) == (x \div (2 ^ i)) % 2

RECURSIVE AndN(_, _, _)
\* a & b over the low n bits
AndN(a, b, n) ==
    IF n = 0 THEN 0
    ELSE (a % 2) * (b % 2) + 2 * AndN(a \div 2, b \div 2, n - 1)

RECURSIVE OrN(_, _, _)
\* a | b over the low n bits
OrN(a, b, n) ==
    IF n = 0 THEN 0
    ELSE (IF (a % 2) + (b % 2) > 0 THEN 1 ELSE 0) + 2 * OrN(a \div 2, b \div 2, n - 1)

\* (~m) & 0xff
NotLow8(m) == 255 - (m % 256)

\* the value of F at x, with x evaluated once (the local-variable idiom)
Bind(x, F(_)) == CHOOSE y \in {F(v) : v \in {x}} : TRUE

RECURSIVE ones(_)
\* the loop "mask = mask << 1; mask = mask | 1" run n times from 0
ones(n) == IF n = 0 THEN 0 ELSE OrN(ones(n - 1) * 2, 1, n)

-----------------------------------------------------------------------------
(* QuaboConfig._set_bits *)

\* the two early returns: the call goes on only when neither is taken
accepted_drop_width(lsb_pos, field_width) ==
    ~((field_width + lsb_pos) > SERIAL_COMMAND_LENGTH)

accepted(lsb_pos, field_width) ==
    /\ ~(field_width > MAX_FIELD_WIDTH)
    /\ ~((field_width + lsb_pos) > SERIAL_COMMAND_LENGTH)

\* regs[b] = regs[b] & ((~mask) & 0xff) ; regs[b] = regs[b] | (bits & 0xff)
merge_byte_no_clear(old, mask, bits) == OrN(old, bits % 256, 8)

merge_byte_overwrite(old, mask, bits) == bits % 256

merge_byte(old, mask, bits) == OrN(AndN(old, NotLow8(mask), 8), bits % 256, 8)

\* the assignments of _set_bits to the bytes of one chip's image
write_field(image, lsb_pos, field_width, value) ==
    LET shift == lsb_pos % 8
        byte_pos == (lsb_pos + 7 - shift) \div 8
        mask == ones(field_width) * (2 ^ shift)
        r1 == [image EXCEPT ![byte_pos] =
                  merge_byte(@, mask, value * (2 ^ shift))]
        r2 == IF (shift + field_width) > 8
              THEN [r1 EXCEPT ![byte_pos + 1] =
                      merge_byte(@, mask \div 256, value \div (2 ^ (8 - shift)))]
              ELSE r1
        r3 == IF (shift + field_width) > 16
              THEN [r2 EXCEPT ![byte_pos + 2] =
                      merge_byte(@, mask \div 65536, value \div (2 ^ (16 - shift)))]
              ELSE r2
    IN r3

set_bits(regs, chip, lsb_pos, field_width, value) ==
    IF ~accepted(lsb_pos, field_width) THEN regs
    ELSE [regs EXCEPT ![chip] = write_field(@, lsb_pos, field_width, value)]

(* QuaboConfig._set_bits_4: the value is the pair <<outcome, images>> *)
set_bits_4_any_arity(regs, vals, lsb_pos, field_width) ==
    IF Len(vals) < 4 THEN <<"Exception", regs>>
    ELSE <<"None",
           set_bits(set_bits(set_bits(set_bits(regs,
               0, lsb_pos, field_width, vals[1]),
               1, lsb_pos, field_width, vals[2]),
               2, lsb_pos, field_width, vals[3]),
               3, lsb_pos, field_width, vals[4])>>

set_bits_4(regs, vals, lsb_pos, field_width) ==
    IF Len(vals) # 4 THEN <<"Exception", regs>>
    ELSE <<"None",
           set_bits(set_bits(set_bits(set_bits(regs,
               0, lsb_pos, field_width, vals[1]),
               1, lsb_pos, field_width, vals[2]),
               2, lsb_pos, field_width, vals[3]),
               3, lsb_pos, field_width, vals[4])>>

-----------------------------------------------------------------------------
(* Inputs of the bit-packer specification *)

\* recv() was not called; recv() returned None after the socket timeout
NoReply == [kind |-> "none", data |-> <<>>]
Timeout == [kind |-> "timeout", data |-> <<>>]

NoCall == [op |-> "none", chip |-> 0, pos |-> 0, width |-> 0, value |-> 0,
           vals |-> <<>>, pos2 |-> 0, width2 |-> 0, value2 |-> 0,
           echo |-> 0, nsent |-> 0, builds |-> 0, configs |-> 0,
           prev_op |-> "none", prev_echo |-> 0, prev_sent |-> FALSE,
           nth |-> 0, mid |-> 0, arrivals |-> <<>>, mode |-> "",
           ph_dest |-> <<>>, movie_dest |-> <<>>, d |-> <<>>, p |-> <<>>,
           expected |-> <<>>, actual |-> <<>>]

ZeroRegs == [c \in Chips |-> [i \in ByteIdx |-> 0]]

\* no receiver object was constructed; no call has returned a value
NoReceiver == [class |-> "none", data |-> [kind |-> "None"], timestamp |-> [kind |-> "None"]]
NoValue == [kind |-> "none"]

\* the high-voltage and destination settings, the DAQ_PARAMS object and the
\* TFTP client of a run that uses none of them
HvChans == 0 .. 3
ZeroHv == [i \in HvChans |-> 0]
NoDests == <<>>
NoParams == [kind |-> "none"]
NoOpts == [stage |-> "none"]
NoTftp == [stage |-> "none", pc |-> "none", uploads |-> <<>>, performed |-> <<>>,
           opts |-> NoOpts]
InitExt ==
    /\ hv_config = ZeroHv
    /\ dest_ips = NoDests
    /\ daq_params = NoParams
    /\ tftp = NoTftp

\* starting images: all clear, all set, and a mixed pattern
StartImages ==
    { [c \in Chips |-> [i \in ByteIdx |-> f]] : f \in {0, 255} }
        \cup { [c \in Chips |-> [i \in ByteIdx |-> (37 * i + 11 * c + k) % 256]] : k \in {165} }

BitPositions ==
    (0 .. MaxLowPos) \cup ((SERIAL_COMMAND_LENGTH - MaxTail) .. SERIAL_COMMAND_LENGTH)

Widths == 1 .. MaxWidth

\* values that fit a field of w bits: all clear, all set, alternating bits
ValuesFor(w) == {0, (2 ^ w) - 1, 21845 % (2 ^ w), 43690 % (2 ^ w)}

\* values that do not fit a field of w bits: one bit, and two bits, above it
OverflowValues(w) == {2 ^ w, 3 * (2 ^ w) + 1}

PairWidths == {1, 7, 10, 16}

\* value lists for _set_bits_4: 4 distinct values, and lists of 0, 3 and 5 values
ValLists(w) ==
    LET m == 2 ^ w
    IN { <<21845 % m, 43690 % m, m - 1, 1>>,
         <<>>, <<1, 0, 1>>, <<1, 0, 1, 0, 1>> }

-----------------------------------------------------------------------------
(* The bit-packer specification: one call on an arbitrary starting image *)

InitBits ==
    /\ MAROC_regs \in StartImages
    /\ quabo_config = <<>>
    /\ sent = <<>>
    /\ ret = "none"
    /\ reply = NoReply
    /\ call = NoCall
    /\ pre_regs = MAROC_regs
    /\ swapped_regs = MAROC_regs
    /\ receiver = NoReceiver
    /\ returned = NoValue
    /\ InitExt

\* self._set_bits(chip, lsb_pos, field_width, value)
SetBits(chip, lsb_pos, field_width, value) ==
    /\ call.op = "none"
    /\ MAROC_regs' = set_bits(MAROC_regs, chip, lsb_pos, field_width, value)
    /\ ret' = "None"
    /\ call' = [NoCall EXCEPT !.op = "set_bits", !.chip = chip, !.pos = lsb_pos,
                              !.width = field_width, !.value = value]
    /\ pre_regs' = MAROC_regs
    /\ swapped_regs' = MAROC_regs'
    /\ UNCHANGED <<quabo_config, sent, reply, receiver, returned, ext_vars>>

\* self._set_bits_4(tag, vals, lsb_pos, field_width)
SetBits4(vals, lsb_pos, field_width) ==
    /\ call.op = "none"
    /\ LET r == set_bits_4(MAROC_regs, vals, lsb_pos, field_width)
       IN /\ ret' = r[1]
          /\ MAROC_regs' = r[2]
    /\ call' = [NoCall EXCEPT !.op = "set_bits_4", !.vals = vals, !.pos = lsb_pos,
                              !.width = field_width]
    /\ pre_regs' = MAROC_regs
    /\ swapped_regs' = MAROC_regs'
    /\ UNCHANGED <<quabo_config, sent, reply, receiver, returned, ext_vars>>

\* two _set_bits calls on one chip, and the same two calls in the other order
\* on a copy of the starting images
SetBitsPair(chip, p1, w1, v1, p2, w2, v2) ==
    /\ call.op = "none"
    /\ MAROC_regs' = set_bits(set_bits(MAROC_regs, chip, p1, w1, v1), chip, p2, w2, v2)
    /\ swapped_regs' = set_bits(set_bits(MAROC_regs, chip, p2, w2, v2), chip, p1, w1, v1)
    /\ ret' = "None"
    /\ call' = [NoCall EXCEPT !.op = "pair", !.chip = chip,
                              !.pos = p1, !.width = w1, !.value = v1,
                              !.pos2 = p2, !.width2 = w2, !.value2 = v2]
    /\ pre_regs' = MAROC_regs
    /\ UNCHANGED <<quabo_config, sent, reply, receiver, returned, ext_vars>>

\* the calls a caller of the bit packer can make on the starting image
CallSetBits ==
    /\ call.op = "none"
    /\ \E chip \in Chips, p \in BitPositions, w \in Widths :
         \E v \in ValuesFor(w) : SetBits(chip, p, w, v)

\* the same call with a value wider than the field, as _make_maroc_cmd makes
\* it for a configured value that does not fit
CallSetBitsOverflow ==
    /\ call.op = "none"
    /\ \E chip \in Chips, p \in BitPositions, w \in Widths :
         \E v \in OverflowValues(w) : SetBits(chip, p, w, v)

CallSetBits4 ==
    /\ call.op = "none"
    /\ \E p \in BitPositions, w \in Widths :
         \E vals \in ValLists(w) : SetBits4(vals, p, w)

CallSetBitsPair ==
    /\ call.op = "none"
    /\ \E chip \in Chips, p1 \in 0 .. MaxPairPos, w1 \in PairWidths,
          g \in 0 .. MaxGap, w2 \in PairWidths :
         \E v1 \in ValuesFor(w1) \ {0}, v2 \in ValuesFor(w2) \ {0} :
            SetBitsPair(chip, p1, w1, v1, p1 + w1 + g, w2, v2)

NextBits == CallSetBits \/ CallSetBitsOverflow \/ CallSetBits4 \/ CallSetBitsPair

SpecBits == InitBits /\ [][NextBits]_vars

-----------------------------------------------------------------------------
(* Util.reverse_bits *)

RECURSIVE reverse_loop(_, _, _)
\* n more rounds of: data_out <<= 1; if data_in & 1: data_out |= 1; data_in >>= 1
reverse_loop(data_in, data_out, n) ==
    IF n = 0 THEN data_out
    ELSE reverse_loop(data_in \div 2, data_out * 2 + (data_in % 2), n - 1)

reverse_bits_short(data_in, width) == reverse_loop(data_in, 0, width - 1)

reverse_bits(data_in, width) == reverse_loop(data_in, 0, width)

IntValue(v) == [kind |-> "int", value |-> v]

\* the state in which only Util is used: no QuaboConfig call, no receiver
InitUtil ==
    /\ MAROC_regs = ZeroRegs
    /\ quabo_config = <<>>
    /\ sent = <<>>
    /\ ret = "none"
    /\ reply = NoReply
    /\ call = NoCall
    /\ pre_regs = MAROC_regs
    /\ swapped_regs = MAROC_regs
    /\ receiver = NoReceiver
    /\ returned = NoValue
    /\ InitExt

\* Util.reverse_bits(data_in, width)
ReverseBits(data_in, width) ==
    /\ returned' = IntValue(reverse_bits(data_in, width))
    /\ ret' = "None"
    /\ call' = [NoCall EXCEPT !.op = "reverse_bits", !.value = data_in,
                              !.width = width, !.nth = 1]
    /\ UNCHANGED <<config_vars, receiver, ext_vars>>

\* Util.reverse_bits(r, width) with r the value the first call returned
ReverseBitsAgain ==
    /\ call.op = "reverse_bits" /\ call.nth = 1
    /\ returned' = IntValue(reverse_bits(returned.value, call.width))
    /\ ret' = "None"
    /\ call' = [call EXCEPT !.nth = 2, !.mid = returned.value]
    /\ UNCHANGED <<config_vars, receiver, ext_vars>>

CallReverseBits ==
    /\ call.op = "none"
    /\ \E width \in 1 .. MaxRevWidth :
          \E data_in \in 0 .. (2 ^ width) - 1 : ReverseBits(data_in, width)

NextUtil == CallReverseBits \/ ReverseBitsAgain

SpecUtil == InitUtil /\ [][NextUtil]_vars

-----------------------------------------------------------------------------
(* QuaboConfig._make_maroc_cmd *)

\* A tag of the 'maroc' section: its name, and for the channel families
\* (MASKOR1_<ch>, MASKOR2_<ch>, CTEST_<ch>, GAIN<ch>) the channel number the
\* code parses from the text after the family name.
Tag(name, chan) == [name |-> name, chan |-> chan]

\* bit position of every tag written as one plain bit per chip
PLAIN_POS ==
    [ OTABG_ON |-> 0, DAC_ON |-> 1, SMALL_DAC |-> 2,
      ENB_OUT_ADC |-> 23, INV_START_GRAY |-> 24, RAMP8B |-> 25,
      RAMP10B |-> 26, CMD_CK_MUX |-> 155, D1_D2 |-> 156,
      INV_DISCR_ADC |-> 157, POLAR_DISCRI |-> 158, ENB3ST |-> 159,
      VAL_DC_FSB2 |-> 160, SW_FSB2_50F |-> 161,
      SW_FSB2_100F |-> 162, SW_FSB2_100K |-> 163,
      SW_FSB2_50K |-> 164, VALID_DC_FS |-> 165,
      CMD_FSB_FSU |-> 166, SW_FSB1_50F |-> 167,
      SW_FSB1_100F |-> 168, SW_FSB1_100K |-> 169,
      SW_FSB1_50k |-> 170, SW_FSU_100K |-> 171, SW_FSU_50K |-> 172,
      SW_FSU_25K |-> 173, SW_FSU_40F |-> 174, SW_FSU_20F |-> 175,
      H1H2_CHOICE |-> 176, EN_ADC |-> 177, SW_SS_1200F |-> 178,
      SW_SS_600F |-> 179, SW_SS_300F |-> 180, ON_OFF_SS |-> 181,
      SWB_BUF_2P |-> 182, SWB_BUF_1P |-> 183, SWB_BUF_500F |-> 184,
      SWB_BUF_250F |-> 185, CMD_FSB |-> 186, CMD_SS |-> 187,
      CMD_FSU |-> 188 ]

OPCODE_ECHO == 129
OPCODE_NO_ECHO == 1

\* frame offset of the image of each chip
CHIP_OFFSET == [c \in Chips |->
    IF c = 0 THEN 4 ELSE IF c = 1 THEN 132 ELSE IF c = 2 THEN 260 ELSE 388]

FrameIdx == 0 .. (FRAME_BYTES - 1)

\* bytearray(492)
zero_cmd == [i \in FrameIdx |-> 0]

\* the four "cmd[ii+off] = self._MAROC_regs[c][ii]" assignments, ii = 0..103
copy_images_gap28(cmd, regs) ==
    [i \in FrameIdx |->
        IF i >= 4 /\ i < 4 + IMAGE_BYTES THEN regs[0][i - 4]
        ELSE IF i >= 136 /\ i < 136 + IMAGE_BYTES THEN regs[1][i - 136]
        ELSE IF i >= 260 /\ i < 260 + IMAGE_BYTES THEN regs[2][i - 260]
        ELSE IF i >= 388 /\ i < 388 + IMAGE_BYTES THEN regs[3][i - 388]
        ELSE cmd[i]]

copy_images(cmd, regs) ==
    [i \in FrameIdx |->
        IF i >= CHIP_OFFSET[0] /\ i < CHIP_OFFSET[0] + IMAGE_BYTES
        THEN regs[0][i - CHIP_OFFSET[0]]
        ELSE IF i >= CHIP_OFFSET[1] /\ i < CHIP_OFFSET[1] + IMAGE_BYTES
        THEN regs[1][i - CHIP_OFFSET[1]]
        ELSE IF i >= CHIP_OFFSET[2] /\ i < CHIP_OFFSET[2] + IMAGE_BYTES
        THEN regs[2][i - CHIP_OFFSET[2]]
        ELSE IF i >= CHIP_OFFSET[3] /\ i < CHIP_OFFSET[3] + IMAGE_BYTES
        THEN regs[3][i - CHIP_OFFSET[3]]
        ELSE cmd[i]]

\* vals_revbits: reverse_bits of the first four values
revbits4_no_reverse(vals, width) == [i \in 1 .. 4 |-> vals[i]]

revbits4(vals, width) == [i \in 1 .. 4 |-> reverse_bits(vals[i], width)]

\* the round for a tag with MASKOR2_<ch> written where MASKOR1_<ch> is
apply_tag_maskor2_at_154(regs, tag, vals) ==
    IF tag.name = "MASKOR2"
    THEN set_bits_4(regs, vals, 154 - (2 * tag.chan), 1)
    ELSE IF tag.name \in DOMAIN PLAIN_POS
    THEN set_bits_4(regs, vals, PLAIN_POS[tag.name], 1)
    ELSE IF tag.name = "DAC2"
    THEN set_bits_4(regs, revbits4(vals, 10), 3, 10)
    ELSE IF tag.name = "DAC1"
    THEN set_bits_4(regs, revbits4(vals, 10), 13, 10)
    ELSE IF tag.name = "MASKOR1"
    THEN set_bits_4(regs, vals, 154 - (2 * tag.chan), 1)
    ELSE IF tag.name = "CTEST"
    THEN set_bits_4(regs, vals, 828 - tag.chan, 1)
    ELSE set_bits_4(regs, revbits4(vals, 8), 757 - 9 * tag.chan, 8)

\* the chain of "if tag ..." of one loop round: <<outcome, images>>
apply_tag(regs, tag, vals) ==
    IF tag.name \in DOMAIN PLAIN_POS
    THEN set_bits_4(regs, vals, PLAIN_POS[tag.name], 1)
    ELSE IF tag.name = "DAC2"
    THEN IF Len(vals) < 4 THEN <<"IndexError", regs>>
         ELSE set_bits_4(regs, revbits4(vals, 10), 3, 10)
    ELSE IF tag.name = "DAC1"
    THEN IF Len(vals) < 4 THEN <<"IndexError", regs>>
         ELSE set_bits_4(regs, revbits4(vals, 10), 13, 10)
    ELSE IF tag.name = "MASKOR1"
    THEN set_bits_4(regs, vals, 154 - (2 * tag.chan), 1)
    ELSE IF tag.name = "MASKOR2"
    THEN set_bits_4(regs, vals, 153 - (2 * tag.chan), 1)
    ELSE IF tag.name = "CTEST"
    THEN set_bits_4(regs, vals, 828 - tag.chan, 1)
    ELSE IF tag.name = "GAIN"
    THEN IF Len(vals) < 4 THEN <<"IndexError", regs>>
         ELSE set_bits_4(regs, revbits4(vals, 8), 757 - 9 * tag.chan, 8)
    ELSE <<"None", regs>>

\* one round of "for tag, val in maroc_config.items()": <<outcome, images, cmd>>
tag_step_copy_first(regs, cmd, item) ==
    Bind(apply_tag(regs, item.tag, item.vals),
         LAMBDA a : IF a[1] # "None" THEN <<a[1], a[2], cmd>>
                    ELSE <<"None", a[2], copy_images(cmd, regs)>>)

tag_step(regs, cmd, item) ==
    Bind(apply_tag(regs, item.tag, item.vals),
         LAMBDA a : IF a[1] # "None" THEN <<a[1], a[2], cmd>>
                    ELSE <<"None", a[2], copy_images(cmd, a[2])>>)

RECURSIVE maroc_loop(_, _, _)
\* the rounds of the loop for the items still to come: <<outcome, images, cmd>>
maroc_loop(regs, cmd, items) ==
    IF items = <<>> THEN <<"None", regs, cmd>>
    ELSE Bind(tag_step(regs, cmd, Head(items)),
              LAMBDA r : IF r[1] # "None" THEN r
                         ELSE maroc_loop(r[2], r[3], Tail(items)))

make_maroc_cmd(regs, cmd, config, echo) ==
    maroc_loop(regs,
               [cmd EXCEPT ![0] = IF echo # 0 THEN OPCODE_ECHO ELSE OPCODE_NO_ECHO],
               config)

-----------------------------------------------------------------------------
(* QuaboConfig.SetMarocParams and QuaboConfig.MarocParamConfig *)

\* the indices the comparison loop skips
echo_skipped_through_132(i) ==
    \/ i >= 108 /\ i <= 132
    \/ i >= 236 /\ i < 260
    \/ i >= 364 /\ i < 388

echo_skipped(i) ==
    \/ i >= 108 /\ i < 132
    \/ i >= 236 /\ i < 260
    \/ i >= 364 /\ i < 388

\* the comparison loop returns False at the first compared index that differs
echo_result(cmd, data) ==
    IF \E i \in 0 .. (Len(data) - 1) : ~echo_skipped(i) /\ cmd[i] # data[i + 1]
    THEN "False" ELSE "True"

\* What the device does with a register command: it returns the frame with
\* the bytes at the indices in diff changed and cut to len bytes ("echo"), or
\* nothing within the socket timeout ("silent").
Device(kind, diff, len) == [kind |-> kind, diff |-> diff, len |-> len]

Data(bytes) == [kind |-> "data", data |-> bytes]

\* the datagram sent back for cmd
Echoed(cmd, dev) ==
    [k \in 1 .. dev.len |->
        IF (k - 1) \in dev.diff THEN (cmd[k - 1] + 1) % 256 ELSE cmd[k - 1]]

\* self.recv(492) after cmd went out
recv(cmd, dev) == IF dev.kind = "silent" THEN Timeout ELSE Data(Echoed(cmd, dev))

\* self.SetMarocParams(echo), the device behaving as dev
SetMarocParams(echo, dev) ==
    \E r \in {make_maroc_cmd(MAROC_regs, zero_cmd, quabo_config, echo)} :
      \E rx \in {IF r[1] = "None" /\ echo # 0 THEN recv(r[3], dev) ELSE NoReply} :
       LET sends == r[1] = "None"
       IN /\ MAROC_regs' = r[2]
          /\ sent' = IF sends THEN Append(sent, r[3]) ELSE sent
          /\ reply' = rx
          /\ ret' = IF ~sends THEN r[1]
                    ELSE IF echo = 0 THEN "True"
                    ELSE IF rx.kind = "timeout" THEN "TypeError"
                    ELSE IF Len(rx.data) # FRAME_BYTES THEN "False"
                    ELSE echo_result(r[3], rx.data)
          /\ call' = [NoCall EXCEPT !.op = "SetMarocParams", !.echo = echo,
                           !.nsent = Len(sent),
                           !.builds = call.builds + 1, !.configs = call.configs,
                           !.prev_op = call.op, !.prev_echo = call.echo,
                           !.prev_sent = (Len(sent) > call.nsent)]
          /\ pre_regs' = MAROC_regs
          /\ swapped_regs' = MAROC_regs'
          /\ UNCHANGED <<quabo_config, receiver, returned, ext_vars>>

\* self.quabo_config['maroc'][tag] = vals: a known key keeps its place
set_item(config, tag, vals) ==
    IF \E k \in 1 .. Len(config) : config[k].tag = tag
    THEN [k \in 1 .. Len(config) |->
            IF config[k].tag = tag THEN [tag |-> tag, vals |-> vals] ELSE config[k]]
    ELSE Append(config, [tag |-> tag, vals |-> vals])

MarocParamConfig(tag, vals) ==
    /\ quabo_config' = set_item(quabo_config, tag, vals)
    /\ ret' = "None"
    /\ call' = [NoCall EXCEPT !.op = "MarocParamConfig", !.vals = vals,
                        !.nsent = Len(sent),
                        !.builds = call.builds, !.configs = call.configs + 1,
                        !.prev_op = call.op, !.prev_echo = call.echo,
                        !.prev_sent = (Len(sent) > call.nsent)]
    /\ pre_regs' = MAROC_regs
    /\ swapped_regs' = MAROC_regs
    /\ UNCHANGED <<MAROC_regs, sent, reply, receiver, returned, ext_vars>>

-----------------------------------------------------------------------------
(* Inputs of the register-command specifications *)

\* contents of the 'maroc' section of the configuration file
StartConfigs ==
    { <<>>,
      << [tag |-> Tag("DAC_ON", 0), vals |-> <<1, 0, 1, 1>>],
         [tag |-> Tag("DAC1", 0), vals |-> <<677, 1, 512, 1023>>],
         [tag |-> Tag("GAIN", 0), vals |-> <<53, 255, 1, 128>>] >>,
      << [tag |-> Tag("CTEST", 0), vals |-> <<1, 1, 0, 1>>],
         [tag |-> Tag("MASKOR2", 63), vals |-> <<0, 1, 1, 0>>],
         [tag |-> Tag("SMALL_DAC", 0), vals |-> <<3, 0, 0, 1>>],
         [tag |-> Tag("HELLO", 0), vals |-> <<7>>] >> }

\* tags and value lists a caller passes to MarocParamConfig
ConfigTags == {Tag("DAC_ON", 0), Tag("DAC2", 0), Tag("GAIN", 63)}

ConfigVals(tag) ==
    IF tag.name \in {"DAC2", "GAIN"}
    THEN { <<179, 1, 128, 255>>, <<0, 0, 0, 0>>, <<1, 2, 3>>, <<1, 2, 3, 4, 5>> }
    ELSE { <<1, 1, 0, 1>>, <<0, 0, 0, 0>>, <<1, 0, 1>>, <<1, 0, 1, 0, 1>> }

\* frame indices at the two ends of every chip image and of every gap
DiffIdx == {0, 1, 3, 4, 107, 108, 131, 132, 235, 236, 259, 260, 363, 364, 387, 388, 491}

DiffSets == {D \in SUBSET DiffIdx : Cardinality(D) <= MaxDiffs}

InitBuild ==
    /\ MAROC_regs = ZeroRegs
    /\ quabo_config \in StartConfigs
    /\ sent = <<>>
    /\ ret = "none"
    /\ reply = NoReply
    /\ call = NoCall
    /\ pre_regs = MAROC_regs
    /\ swapped_regs = MAROC_regs
    /\ receiver = NoReceiver
    /\ returned = NoValue
    /\ InitExt

-----------------------------------------------------------------------------
(* The echo specification: one SetMarocParams and every kind of reply *)

EchoedReply ==
    /\ call.op = "none"
    /\ \E echo \in {0, 1}, D \in DiffSets :
          SetMarocParams(echo, Device("echo", D, FRAME_BYTES))

ShortReply ==
    /\ call.op = "none"
    /\ \E n \in {0, 12, FRAME_BYTES - 1} : SetMarocParams(1, Device("echo", {}, n))

NoReplyInTime ==
    /\ call.op = "none"
    /\ SetMarocParams(1, Device("silent", {}, 0))

NextEcho == EchoedReply \/ ShortReply \/ NoReplyInTime

SpecEcho == InitBuild /\ [][NextEcho]_vars

-----------------------------------------------------------------------------
(* The register-command specification: configuration changes and builds *)

Configure ==
    /\ call.configs < MaxConfigs
    /\ \E tag \in ConfigTags : \E vals \in ConfigVals(tag) : MarocParamConfig(tag, vals)

Build ==
    /\ call.builds < MaxBuilds
    /\ \E echo \in {0, 1} : SetMarocParams(echo, Device("echo", {}, FRAME_BYTES))

Next == Configure \/ Build

Spec == InitBuild /\ [][Next]_vars

-----------------------------------------------------------------------------
(* The packet tables and struct.unpack *)

DType ==
    [ byte |-> [flag |-> "b", size |-> 1],
      ubyte |-> [flag |-> "B", size |-> 1],
      short |-> [flag |-> "h", size |-> 2],
      ushort |-> [flag |-> "H", size |-> 2],
      uint |-> [flag |-> "I", size |-> 4],
      ulonglong |-> [flag |-> "Q", size |-> 8],
      string |-> [flag |-> "s", size |-> 1] ]

\* HKPktDef in its order; lsb and constant are the decimal texts of the floats
\* (1 and 0 where the entry has none), bit is -1 where the entry has none
HKPktDef ==
    << [name |-> "tag", offset |-> 0, length |-> 1, type |-> "byte",
        lsb |-> "1", constant |-> "0", bit |-> -1],
       [name |-> "boardloc", offset |-> 2, length |-> 2, type |-> "ushort",
        lsb |-> "1", constant |-> "0", bit |-> -1],
       [name |-> "hvmon0", offset |-> 4, length |-> 2, type |-> "ushort",
        lsb |-> "-0.001209361", constant |-> "0", bit |-> -1],
       [name |-> "hvmon1", offset |-> 6, length |-> 2, type |-> "ushort",
        lsb |-> "-0.001209361", constant |-> "0", bit |-> -1],
       [name |-> "hvmon2", offset |-> 8, length |-> 2, type |-> "ushort",
        lsb |-> "-0.001209361", constant |-> "0", bit |-> -1],
       [name |-> "hvmon3", offset |-> 10, length |-> 2, type |-> "ushort",
        lsb |-> "-0.001209361", constant |-> "0", bit |-> -1],
       [name |-> "hvimon0", offset |-> 12, length |-> 2, type |-> "ushort",
        lsb |-> "-3.8147000000000004e-08", constant |-> "0.0025000017920000003", bit |-> -1],
       [name |-> "hvimon1", offset |-> 14, length |-> 2, type |-> "ushort",
        lsb |-> "-3.8147000000000004e-08", constant |-> "0.0025000017920000003", bit |-> -1],
       [name |-> "hvimon2", offset |-> 16, length |-> 2, type |-> "ushort",
        lsb |-> "-3.8147000000000004e-08", constant |-> "0.0025000017920000003", bit |-> -1],
       [name |-> "hvimon3", offset |-> 18, length |-> 2, type |-> "ushort",
        lsb |-> "-3.8147000000000004e-08", constant |-> "0.0025000017920000003", bit |-> -1],
       [name |-> "rawhvmon", offset |-> 20, length |-> 2, type |-> "ushort",
        lsb |-> "-0.001209361", constant |-> "0", bit |-> -1],
       [name |-> "v12mon", offset |-> 22, length |-> 2, type |-> "ushort",
        lsb |-> "1.907e-05", constant |-> "0", bit |-> -1],
       [name |-> "v18mon", offset |-> 24, length |-> 2, type |-> "ushort",
        lsb |-> "3.814e-05", constant |-> "0", bit |-> -1],
       [name |-> "v33mon", offset |-> 26, length |-> 2, type |-> "ushort",
        lsb |-> "7.62e-05", constant |-> "0", bit |-> -1],
       [name |-> "v37mon", offset |-> 28, length |-> 2, type |-> "ushort",
        lsb |-> "7.62e-05", constant |-> "0", bit |-> -1],
       [name |-> "i10mon", offset |-> 30, length |-> 2, type |-> "ushort",
        lsb |-> "0.00018199999999999998", constant |-> "0", bit |-> -1],
       [name |-> "i18mon", offset |-> 32, length |-> 2, type |-> "ushort",
        lsb |-> "3.78e-05", constant |-> "0", bit |-> -1],
       [name |-> "i33mon", offset |-> 34, length |-> 2, type |-> "ushort",
        lsb |-> "3.78e-05", constant |-> "0", bit |-> -1],
       [name |-> "det_temp", offset |-> 36, length |-> 2, type |-> "ushort",
        lsb |-> "0.25", constant |-> "0", bit |-> -1],
       [name |-> "fpga_temp", offset |-> 38, length |-> 2, type |-> "ushort",
        lsb |-> "0.007689941556444172", constant |-> "-273.15", bit |-> -1],
       [name |-> "vccint", offset |-> 40, length |-> 2, type |-> "ushort",
        lsb |-> "4.57763671875e-05", constant |-> "0", bit |-> -1],
       [name |-> "vccaux", offset |-> 42, length |-> 2, type |-> "ushort",
        lsb |-> "4.57763671875e-05", constant |-> "0", bit |-> -1],
       [name |-> "uid", offset |-> 44, length |-> 8, type |-> "ulonglong",
        lsb |-> "1", constant |-> "0", bit |-> -1],
       [name |-> "shutter_status", offset |-> 52, length |-> 1, type |-> "byte",
        lsb |-> "1", constant |-> "0", bit |-> 0],
       [name |-> "sensor_status", offset |-> 52, length |-> 1, type |-> "byte",
        lsb |-> "1", constant |-> "0", bit |-> 1],
       [name |-> "pcbrev", offset |-> 53, length |-> 1, type |-> "byte",
        lsb |-> "1", constant |-> "0", bit |-> 0],
       [name |-> "fwtime", offset |-> 56, length |-> 4, type |-> "uint",
        lsb |-> "1", constant |-> "0", bit |-> -1],
       [name |-> "fwver", offset |-> 60, length |-> 4, type |-> "string",
        lsb |-> "1", constant |-> "0", bit |-> -1] >>

\* DaqPktDef without its 'data' entry, in its order
DaqPktDef ==
    << [name |-> "acq_mode", offset |-> 0, length |-> 1, type |-> "byte"],
       [name |-> "packet_ver", offset |-> 1, length |-> 1, type |-> "byte"],
       [name |-> "packet_no", offset |-> 2, length |-> 2, type |-> "ushort"],
       [name |-> "boardloc", offset |-> 4, length |-> 2, type |-> "ushort"],
       [name |-> "tai", offset |-> 6, length |-> 4, type |-> "uint"],
       [name |-> "nanosec", offset |-> 10, length |-> 4, type |-> "uint"] >>

\* DaqPktDef['data'], the mode names with _ for -
DaqPktDef_data ==
    [ ph |-> [offset |-> 16, length |-> 512, type |-> "short"],
      movie_16bit |-> [offset |-> 16, length |-> 512, type |-> "ushort"],
      movie_8bit |-> [offset |-> 16, length |-> 256, type |-> "ubyte"] ]

\* HKRecv.PKTLEN, and DataRecv.PKTLEN by receive mode
HK_PKTLEN == 64
PKTLEN == [m \in {"8bit", "16bit"} |-> IF m = "8bit" THEN 272 ELSE 528]

Min(a, b) == IF a < b THEN a ELSE b

\* the Python slice buf[offset : offset + length] of a bytes object
Slice(buf, offset, length) == SubSeq(buf, offset + 1, Min(offset + length, Len(buf)))

\* a call ends by returning a value or by raising an exception
Value(v) == [kind |-> "value", value |-> v]
Raise(exc) == [kind |-> "raise", exc |-> exc]

RECURSIVE le_uint(_)
\* the little-endian unsigned integer held in the bytes d
le_uint(d) == IF d = <<>> THEN 0 ELSE Head(d) + 256 * le_uint(Tail(d))

\* one item of struct.unpack for the flags of DType in use: b, h are two's
\* complement, B, H, I, Q are unsigned
unpack_item_unsigned(flag, d) == le_uint(d)

unpack_item(flag, d) ==
    IF flag \in {"b", "h"}
    THEN IF le_uint(d) >= 2 ^ (8 * Len(d) - 1)
         THEN le_uint(d) - 2 ^ (8 * Len(d))
         ELSE le_uint(d)
    ELSE le_uint(d)

\* d with zero bytes added up to n bytes
Pad(d, n) == [i \in 1 .. n |-> IF i <= Len(d) THEN d[i] ELSE 0]

\* an unpack that makes up the bytes a short buffer lacks
unpack_lenient(type, length, d) ==
    IF DType[type].flag = "s"
    THEN Value(<<Pad(d, length)>>)
    ELSE Value([j \in 1 .. (length \div DType[type].size) |->
                  unpack_item(DType[type].flag,
                              SubSeq(Pad(d, length), (j - 1) * DType[type].size + 1,
                                                     j * DType[type].size))])

\* struct.unpack('<%d%s' % (length/size, flag), d): the tuple of items, or
\* struct.error when d has not exactly the bytes the format asks for
unpack(type, length, d) ==
    IF DType[type].flag = "s"
    THEN IF Len(d) # length \div DType[type].size
         THEN Raise("struct.error") ELSE Value(<<d>>)
    ELSE IF Len(d) # (length \div DType[type].size) * DType[type].size
         THEN Raise("struct.error")
         ELSE Value([j \in 1 .. (length \div DType[type].size) |->
                       unpack_item(DType[type].flag,
                                   SubSeq(d, (j - 1) * DType[type].size + 1,
                                             j * DType[type].size))])

\* '192.168.%d.%d' % (r >> 8, r & 0xff), as the four numbers of the text
boardloc_str(r) == <<192, 168, r \div 256, r % 256>>

\* s[::-1]
Reverse(s) == [j \in 1 .. Len(s) |-> s[Len(s) + 1 - j]]

\* r * lsb + constant in floating point: the raw integer with the two factors
Scaled(r, lsb, constant) == [raw |-> r, lsb |-> lsb, constant |-> constant]

-----------------------------------------------------------------------------
(* HKRecv.ParseData / Util.ParseHKData and DataRecv.ParseData / Util.ParseSciData *)

\* Python None; a numpy array of objects; the 0 that np.zeros puts in a slot;
\* a received datagram in a slot
None == [kind |-> "None"]
Array(slots) == [kind |-> "array", slots |-> slots]
Zero == [kind |-> "zero"]
Bytes(b) == [kind |-> "bytes", bytes |-> b]

\* the first exception among the outcomes rs, or the value F makes of them
FirstRaise(rs, F(_)) ==
    IF \E k \in 1 .. Len(rs) : rs[k].kind = "raise"
    THEN rs[CHOOSE k \in 1 .. Len(rs) :
                /\ rs[k].kind = "raise"
                /\ \A j \in 1 .. (k - 1) : rs[j].kind # "raise"]
    ELSE F(rs)

\* the first item of an unpack outcome, G applied to it
FirstItem(u, G(_)) == IF u.kind = "raise" THEN u ELSE Value(G(u.value[1]))

\* one round of "for k, v in HKPktDef.items()": the value stored in hk_data[k]
hk_field(v, pkt) ==
    IF v.name \in {"uid", "fwtime"}
    THEN FirstItem(unpack(v.type, v.length, Slice(pkt, v.offset, v.length)),
                   LAMBDA r : r)
    ELSE IF v.name = "fwver"
    \* .decode('utf-8')[::-1], for the ASCII bytes the packets of the model hold
    THEN FirstItem(unpack(v.type, v.length, Slice(pkt, v.offset, v.length)),
                   LAMBDA r : Reverse(r))
    ELSE IF v.name = "boardloc"
    THEN FirstItem(unpack(v.type, v.length, Slice(pkt, v.offset, v.length)),
                   LAMBDA r : boardloc_str(r))
    ELSE IF v.length = 1 /\ v.bit = -1
    THEN IF v.offset >= Len(pkt) THEN Raise("IndexError")
         ELSE Value(pkt[v.offset + 1])
    ELSE IF v.length = 1
    THEN IF v.offset >= Len(pkt) THEN Raise("IndexError")
         ELSE Value((pkt[v.offset + 1] \div (2 ^ v.bit)) % 2)
    ELSE FirstItem(unpack(v.type, v.length, Slice(pkt, v.offset, v.length)),
                   LAMBDA r : Scaled(r, v.lsb, v.constant))

HKNames == {HKPktDef[k].name : k \in 1 .. Len(HKPktDef)}

\* the dictionary hk_data of one packet
hk_record(pkt, timestamp) ==
    FirstRaise([k \in 1 .. Len(HKPktDef) |-> hk_field(HKPktDef[k], pkt)],
               LAMBDA rs : Value([n \in HKNames \cup {"timestamp"} |->
                   IF n = "timestamp" THEN timestamp
                   ELSE rs[CHOOSE k \in 1 .. Len(HKPktDef) : HKPktDef[k].name = n].value]))

\* the loop body for slot i: a None slot is skipped and leaves the 0 of
\* np.zeros in parsed_data; subscripting the int 0 raises TypeError
hk_slot(slot, timestamp) ==
    IF slot.kind = "None" THEN Value(Zero)
    ELSE IF slot.kind = "zero" THEN Raise("TypeError")
    ELSE hk_record(slot.bytes, timestamp)

\* HKRecv.ParseData(): len(None) raises TypeError
hk_parse(data, timestamp) ==
    IF data.kind = "None" THEN Raise("TypeError")
    ELSE FirstRaise([i \in 1 .. Len(data.slots) |->
                        hk_slot(data.slots[i], timestamp.slots[i])],
                    LAMBDA rs : Value([i \in 1 .. Len(rs) |-> rs[i].value]))

\* one round of "for k, v in DaqPktDef.items()" for a header field
sci_field(v, data) ==
    IF v.name = "boardloc"
    THEN FirstItem(unpack("ushort", 2, Slice(data, 0, 2)), LAMBDA r : boardloc_str(r))
    ELSE FirstItem(unpack(v.type, v.length, Slice(data, v.offset, v.length)),
                   LAMBDA r : r)

\* the round for k == 'data': every item of the unpacked tuple
sci_samples(data, mode) ==
    unpack(DaqPktDef_data[mode].type, DaqPktDef_data[mode].length,
           Slice(data, DaqPktDef_data[mode].offset, DaqPktDef_data[mode].length))

SciNames == {DaqPktDef[k].name : k \in 1 .. Len(DaqPktDef)}

\* the dictionary sci_data of one packet
sci_record(data, timestamp, mode) ==
    FirstRaise([k \in 1 .. Len(DaqPktDef) + 1 |->
                   IF k <= Len(DaqPktDef) THEN sci_field(DaqPktDef[k], data)
                   ELSE sci_samples(data, mode)],
               LAMBDA rs : Value([n \in SciNames \cup {"timestamp", "data"} |->
                   IF n = "timestamp" THEN timestamp
                   ELSE IF n = "data" THEN rs[Len(DaqPktDef) + 1].value
                   ELSE rs[CHOOSE k \in 1 .. Len(DaqPktDef) : DaqPktDef[k].name = n].value]))

\* DataRecv.ParseData(mode): a None slot is skipped and adds no record
sci_parse(data, timestamp, mode) ==
    IF data.kind = "None" THEN Raise("TypeError")
    ELSE FirstRaise([i \in 1 .. Len(data.slots) |->
                        IF data.slots[i].kind = "None" THEN Value(None)
                        ELSE IF data.slots[i].kind = "zero" THEN Raise("TypeError")
                        ELSE sci_record(data.slots[i].bytes, timestamp.slots[i], mode)],
                    LAMBDA rs : Value(SelectSeq([i \in 1 .. Len(rs) |-> rs[i].value],
                                                LAMBDA x : x # None)))

-----------------------------------------------------------------------------
(* HKRecv.RecvData and DataRecv.RecvData *)

\* what one sock.recvfrom() of the loop meets: a datagram from src with the
\* payload bytes, or nothing until the socket timeout
Datagram(src, bytes) == [kind |-> "datagram", src |-> src, bytes |-> bytes]
NoDatagram == [kind |-> "timeout", src |-> "", bytes |-> <<>>]

\* self.ip_addr, and the address of any other host
QUABO_IP == "quabo"
OTHER_IP == "other"

\* a local variable that was never assigned
UNBOUND == "unbound"

\* datetime.now().timestamp() in round i: non-zero and increasing
Now(i) == i

\* recvfrom(bufsize) hands over at most bufsize bytes of the datagram
Take(bytes, bufsize) == SubSeq(bytes, 1, Min(Len(bytes), bufsize))

\* the loop without the comparison of addr[0] with self.ip_addr
recv_loop_no_check(arrivals, i, got, addr, slots, stamps, bufsize) ==
    [ret |-> "None",
     data |-> Array([k \in 1 .. Len(arrivals) |->
                 IF arrivals[k].kind = "datagram"
                 THEN Bytes(Take(arrivals[k].bytes, bufsize)) ELSE Zero]),
     timestamp |-> Array([k \in 1 .. Len(arrivals) |->
                 IF arrivals[k].kind = "datagram" THEN Now(k) ELSE 0])]

RECURSIVE recv_loop(_, _, _, _, _, _, _)
\* the rounds i..n of "for i in range(n)" (i counted from 1), with the locals
\* recv (here got) and addr as the rounds before left them:
\* [ret, data, timestamp] at the end of the call
recv_loop(arrivals, i, got, addr, slots, stamps, bufsize) ==
    IF i > Len(arrivals)
    THEN [ret |-> "None", data |-> Array(slots), timestamp |-> Array(stamps)]
    ELSE \* except: the error is logged and the round goes on
         IF arrivals[i].kind = "timeout"
         THEN IF addr = UNBOUND
              THEN [ret |-> "UnboundLocalError",
                    data |-> Array(slots), timestamp |-> Array(stamps)]
              ELSE IF addr # QUABO_IP
              THEN [ret |-> "(None, None)", data |-> None, timestamp |-> Array(stamps)]
              ELSE recv_loop(arrivals, i + 1, got, addr,
                             [slots EXCEPT ![i] = Bytes(got)],
                             [stamps EXCEPT ![i] = Now(i)], bufsize)
         ELSE IF arrivals[i].src # QUABO_IP
              THEN [ret |-> "(None, None)", data |-> None, timestamp |-> Array(stamps)]
              ELSE recv_loop(arrivals, i + 1,
                             Take(arrivals[i].bytes, bufsize), arrivals[i].src,
                             [slots EXCEPT ![i] = Bytes(Take(arrivals[i].bytes, bufsize))],
                             [stamps EXCEPT ![i] = Now(i)], bufsize)

\* the buffer size of the receiver's recvfrom
BufSize(class, mode) == IF class = "HKRecv" THEN HK_PKTLEN ELSE PKTLEN[mode]

\* RecvData(n) / RecvData(n, mode): arrivals[i] is what the i-th recvfrom meets
RecvData(arrivals, mode) ==
    /\ \E r \in {recv_loop(arrivals, 1, UNBOUND, UNBOUND,
                           [k \in 1 .. Len(arrivals) |-> Zero],
                           [k \in 1 .. Len(arrivals) |-> 0],
                           BufSize(receiver.class, mode))} :
          /\ receiver' = [receiver EXCEPT !.data = r.data, !.timestamp = r.timestamp]
          /\ ret' = r.ret
    /\ returned' = NoValue
    /\ call' = [NoCall EXCEPT !.op = "RecvData", !.arrivals = arrivals, !.mode = mode]
    /\ UNCHANGED <<config_vars, ext_vars>>

\* ParseData() / ParseData(mode)
ParseData(mode) ==
    /\ \E r \in {IF receiver.class = "HKRecv"
                 THEN hk_parse(receiver.data, receiver.timestamp)
                 ELSE sci_parse(receiver.data, receiver.timestamp, mode)} :
          /\ returned' = r
          /\ ret' = IF r.kind = "raise" THEN r.exc ELSE "None"
    /\ call' = [call EXCEPT !.op = "ParseData", !.mode = mode, !.prev_op = call.op]
    /\ UNCHANGED <<config_vars, receiver, ext_vars>>

-----------------------------------------------------------------------------
(* Inputs of the receiver specifications *)

\* a 64-byte housekeeping payload: every byte below 128, the high bytes of
\* uid zero (the decoded integers stay below 2^31)
HKPattern(seed) ==
    [i \in 1 .. HK_PKTLEN |->
        IF (i - 1) \in 47 .. 51 THEN 0 ELSE (seed + 3 * (i - 1)) % 128]

\* a 528-byte science payload, every byte below 128
SciPattern(seed) == [i \in 1 .. 528 |-> (seed + 5 * (i - 1)) % 128]

\* the payload with the bytes at the offsets of the function over replaced
Patch(bytes, over) ==
    [i \in 1 .. Len(bytes) |-> IF (i - 1) \in DOMAIN over THEN over[i - 1] ELSE bytes[i]]

\* payloads the Quabo sends, and the payload another host sends
QuaboPayloads(class) ==
    IF class = "HKRecv" THEN {HKPattern(1), HKPattern(2)}
    ELSE {SciPattern(1), SciPattern(2)}

OtherPayload(class) == IF class = "HKRecv" THEN HKPattern(3) ELSE SciPattern(3)

\* what one recvfrom can meet
Arrivals(class) ==
    {NoDatagram, Datagram(OTHER_IP, OtherPayload(class))}
        \cup {Datagram(QUABO_IP, b) : b \in QuaboPayloads(class)}

\* the mode arguments of RecvData and of ParseData (HKRecv takes none)
RecvModes(class) == IF class = "HKRecv" THEN {""} ELSE {"8bit", "16bit"}
ParseModes(class) ==
    IF class = "HKRecv" THEN {""} ELSE {"ph", "movie_16bit", "movie_8bit"}

\* HKRecv(ip_addr) or DataRecv(ip_addr) as __init__ leaves it
InitRecv ==
    /\ MAROC_regs = ZeroRegs
    /\ quabo_config = <<>>
    /\ sent = <<>>
    /\ ret = "none"
    /\ reply = NoReply
    /\ call = NoCall
    /\ pre_regs = MAROC_regs
    /\ swapped_regs = MAROC_regs
    /\ receiver \in {[class |-> c, data |-> None, timestamp |-> None] :
                        c \in {"HKRecv", "DataRecv"}}
    /\ returned = NoValue
    /\ InitExt

-----------------------------------------------------------------------------
(* The receiver specification: one RecvData(n) under every mix of datagrams, *)
(* foreign datagrams and timeouts, and ParseData                            *)

Receive ==
    /\ call.op = "none"
    /\ \E n \in 1 .. MaxRecv :
         \E arrivals \in [1 .. n -> Arrivals(receiver.class)] :
           \E mode \in RecvModes(receiver.class) : RecvData(arrivals, mode)

Parse ==
    /\ call.op \in {"none", "RecvData"}
    /\ \E mode \in ParseModes(receiver.class) : ParseData(mode)

NextRecv == Receive \/ Parse

SpecRecv == InitRecv /\ [][NextRecv]_vars

-----------------------------------------------------------------------------
(* The decoder specification: one packet from the Quabo, received and parsed *)

\* bytes at the two ends of the signed and unsigned ranges
EdgeBytes == {0, 1, 127, 128, 255}

\* housekeeping packets: the tag, boardloc and status bytes vary
HKPackets ==
    {Patch(HKPattern(9), (0 :> t) @@ (2 :> lo) @@ (3 :> hi) @@ (52 :> st)) :
        t \in EdgeBytes, lo \in {0, 200}, hi \in {1, 255}, st \in {0, 1, 2}}

\* science packets: acq_mode, packet_ver, boardloc and the first sample vary
SciPackets ==
    {Patch(SciPattern(9), (0 :> a) @@ (1 :> v) @@ (4 :> lo) @@ (5 :> hi)
                             @@ (16 :> s0) @@ (17 :> s1)) :
        a \in {1, 130}, v \in {0, 3}, lo \in {4, 250}, hi \in {0, 129},
        s0 \in {0, 255}, s1 \in EdgeBytes \ {1}}

ReceiveOne ==
    /\ call.op = "none"
    /\ \E bytes \in (IF receiver.class = "HKRecv" THEN HKPackets ELSE SciPackets) :
          RecvData(<<Datagram(QUABO_IP, bytes)>>,
                   IF receiver.class = "HKRecv" THEN "" ELSE "16bit")

ParseOne ==
    /\ call.op = "RecvData"
    /\ \E mode \in ParseModes(receiver.class) : ParseData(mode)

\* lengths a datagram from the Quabo is cut to: around every field boundary
\* of the header, and one byte short of each full packet
ShortLens(class) ==
    IF class = "HKRecv" THEN {0, 1, 3, 45, 52, 53, 60, 63}
    ELSE {0, 1, 2, 5, 13, 15, 16, 17, 271, 272, 527}

\* a cut datagram arrives alone, or after a complete one
ReceiveShort ==
    /\ call.op = "none"
    /\ \E len \in ShortLens(receiver.class), before \in {0, 1} :
          \E short \in {Datagram(QUABO_IP,
                            Take(IF receiver.class = "HKRecv"
                                 THEN HKPattern(9) ELSE SciPattern(9), len))} :
             RecvData(IF before = 0 THEN <<short>>
                      ELSE <<Datagram(QUABO_IP, IF receiver.class = "HKRecv"
                                                THEN HKPattern(8) ELSE SciPattern(8)),
                             short>>,
                      IF receiver.class = "HKRecv" THEN "" ELSE "16bit")

NextParse == ReceiveOne \/ ReceiveShort \/ ParseOne

SpecParse == InitRecv /\ [][NextParse]_vars

-----------------------------------------------------------------------------
(* Properties of the bit packer *)

\* bit b (0..831) of one chip's image
ImageBit(image, b) == Bit(image[b \div 8], b % 8)

InField(b, lsb_pos, field_width) == b >= lsb_pos /\ b < lsb_pos + field_width

\* the last call was a _set_bits the claims C1 and C2 speak about
InRangeSetBits ==
    /\ call.op = "set_bits"
    /\ call.width >= 1 /\ call.width <= 16
    /\ call.pos >= 0 /\ call.pos + call.width <= 829
    /\ call.value >= 0 /\ call.value <= (2 ^ call.width) - 1

\* every bit of image new outside [lsb_pos, lsb_pos + field_width) is as in old
SameOutside(new, old, lsb_pos, field_width) ==
    \A i \in ByteIdx :
        \/ new[i] = old[i]
        \/ \A k \in 0 .. 7 :
              InField(8 * i + k, lsb_pos, field_width)
                 \/ Bit(new[i], k) = Bit(old[i], k)

\* C1: after _set_bits(chip, p, width, value) with width in 1..16,
\* p + width <= 829 and value < 2^width, bit ((p+i) mod 8) of byte
\* ((p+i) div 8) of that chip's image equals bit i of value, for every
\* i in 0..width-1, whatever the image was before.
C1_ReadBack ==
    InRangeSetBits =>
        \A i \in 0 .. (call.width - 1) :
            ImageBit(MAROC_regs[call.chip], call.pos + i) = Bit(call.value, i)

\* a field that spans three bytes was written and changed the image
C1_Witness ==
    /\ InRangeSetBits
    /\ (call.pos % 8) + call.width > 16
    /\ call.value = 21845
    /\ MAROC_regs # pre_regs

\* C2: such a _set_bits leaves every bit of the chip's image outside
\* [p, p + width) as it was, and the other three images as they were.
C2_Frame ==
    InRangeSetBits =>
        /\ SameOutside(MAROC_regs[call.chip], pre_regs[call.chip], call.pos, call.width)
        /\ \A c \in Chips \ {call.chip} : MAROC_regs[c] = pre_regs[c]

\* a field inside one byte of an image with bits set around it was cleared
C2_Witness ==
    /\ InRangeSetBits
    /\ call.pos % 8 = 3 /\ call.width = 2 /\ call.value = 0
    /\ pre_regs[call.chip][call.pos \div 8] = 255
    /\ MAROC_regs[call.chip][call.pos \div 8] = 231

\* the last call was a pair of accepted, in-range writes to disjoint bit ranges
DisjointPair ==
    /\ call.op = "pair"
    /\ accepted(call.pos, call.width) /\ accepted(call.pos2, call.width2)
    /\ call.value < 2 ^ call.width /\ call.value2 < 2 ^ call.width2
    /\ \/ call.pos + call.width <= call.pos2
       \/ call.pos2 + call.width2 <= call.pos

\* C3: two _set_bits calls on one chip with non-overlapping bit ranges give
\* the same images in either order, also when the fields share a byte.
C3_Commute == DisjointPair => MAROC_regs = swapped_regs

\* the two fields share a byte, the second one spans three bytes
C3_Witness ==
    /\ DisjointPair
    /\ (call.pos + call.width - 1) \div 8 = call.pos2 \div 8
    /\ (call.pos2 % 8) + call.width2 > 16
    /\ MAROC_regs # pre_regs

\* C8: _set_bits with field_width > 16 or lsb_pos + field_width > 829
\* returns normally and leaves all four images as they were.
C8_OutOfRangeNoOp ==
    (call.op = "set_bits" /\ (call.width > 16 \/ call.pos + call.width > 829)) =>
        /\ ret = "None"
        /\ MAROC_regs = pre_regs

\* a 16-bit field one bit too far up was asked for with a non-zero value
C8_Witness ==
    /\ call.op = "set_bits"
    /\ call.width = 16 /\ call.pos + call.width = 830
    /\ call.value = 65535
    /\ pre_regs = ZeroRegs
    /\ ret = "None"

\* C9: _set_bits_4 raises when len(vals) # 4 and then changes no image; with
\* 4 values it does one _set_bits per chip c = 0..3, writing vals[c] to chip c.
C9_Arity ==
    (call.op = "set_bits_4") =>
        IF Len(call.vals) # 4
        THEN ret = "Exception" /\ MAROC_regs = pre_regs
        ELSE /\ ret = "None"
             /\ \A c \in Chips :
                  /\ MAROC_regs[c] =
                        set_bits(pre_regs, c, call.pos, call.width, call.vals[c + 1])[c]
                  /\ accepted(call.pos, call.width) =>
                        \A i \in 0 .. (call.width - 1) :
                            ImageBit(MAROC_regs[c], call.pos + i) = Bit(call.vals[c + 1], i)

\* five values were supplied for an accepted field and the call raised
C9_Witness ==
    /\ call.op = "set_bits_4"
    /\ Len(call.vals) = 5
    /\ accepted(call.pos, call.width)
    /\ ret = "Exception"

\* C13 (as claimed): an accepted _set_bits with width in 1..16 and any
\* non-negative value, one of 2^width or more included, changes no bit of the
\* chip's image outside [p, p + width) and no other image.
C13_OutsideBitsKept ==
    (/\ call.op = "set_bits"
     /\ call.width >= 1 /\ call.width <= 16
     /\ call.pos + call.width <= 829
     /\ call.value >= 0) =>
        /\ SameOutside(MAROC_regs[call.chip], pre_regs[call.chip], call.pos, call.width)
        /\ \A c \in Chips \ {call.chip} : MAROC_regs[c] = pre_regs[c]

-----------------------------------------------------------------------------
(* Properties of the register command *)

\* the last call was a SetMarocParams that handed a frame to send()
FrameSent == call.op = "SetMarocParams" /\ Len(sent) = call.nsent + 1

LastFrame == sent[Len(sent)]

\* the frame indices between the end of one chip image and the start of the next
GapIdx ==
    {i \in FrameIdx : \E c \in Chips \ {NCHIPS - 1} :
        i >= CHIP_OFFSET[c] + IMAGE_BYTES /\ i < CHIP_OFFSET[c + 1]}

\* a 492-byte reply came back to a SetMarocParams with echo
EchoCase ==
    /\ FrameSent
    /\ call.echo = 1
    /\ reply.kind = "data"
    /\ Len(reply.data) = 492

DiffersAt(i) == LastFrame[i] # reply.data[i + 1]

\* C4: SetMarocParams with echo and a 492-byte reply returns True when the
\* reply differs from the sent frame only at indices inside the three gaps
\* between the chip images, and False when it differs at any other index
\* (the opcode byte and the chip-image bytes included).
C4_EchoVerdict ==
    EchoCase =>
        ret = (IF \E i \in FrameIdx \ GapIdx : DiffersAt(i) THEN "False" ELSE "True")

\* the reply differs from the frame at the two ends of a gap and is accepted
C4_Witness ==
    /\ EchoCase
    /\ DiffersAt(108) /\ DiffersAt(131)
    /\ quabo_config # <<>>
    /\ ret = "True"

\* C5 (as claimed): when a SetMarocParams starts, all four images are zero,
\* and the frame it sends is the one built from zero images and the current
\* configuration.
C5_ImagesZeroAtBuild ==
    (call.op = "SetMarocParams") =>
        /\ pre_regs = ZeroRegs
        /\ FrameSent =>
              LastFrame = make_maroc_cmd(ZeroRegs, zero_cmd, quabo_config, call.echo)[3]

\* C6: two consecutive SetMarocParams calls with the configuration unchanged
\* in between send the same frame: if the first sent a frame so does the
\* second, the two frames agree in every byte after the opcode, and in the
\* opcode too when the echo argument is the same.
C6_ResendIdentical ==
    (call.op = "SetMarocParams" /\ call.prev_op = "SetMarocParams" /\ call.prev_sent) =>
        /\ FrameSent
        /\ \A i \in FrameIdx \ {0} : LastFrame[i] = sent[Len(sent) - 1][i]
        /\ call.prev_echo = call.echo => LastFrame = sent[Len(sent) - 1]

\* the register command was sent twice in a row from a configuration that
\* sets fields in all four images, one of them with a value wider than its field
C6_Witness ==
    /\ call.op = "SetMarocParams" /\ call.prev_op = "SetMarocParams"
    /\ call.prev_sent /\ FrameSent
    /\ call.prev_echo = call.echo
    /\ \E k \in 1 .. Len(quabo_config) :
          quabo_config[k].tag = Tag("SMALL_DAC", 0) /\ quabo_config[k].vals[1] = 3
    /\ pre_regs # ZeroRegs
    /\ \A c \in Chips : MAROC_regs[c] # ZeroRegs[c]

\* C7 (as claimed): in the frame the image of chip c starts 104 + 28 bytes
\* after the image of chip c - 1, the first at byte 4.
C7_Gap28 ==
    (FrameSent /\ quabo_config # <<>>) =>
        \A c \in Chips : \A i \in ByteIdx :
            /\ (4 + c * (104 + 28) + i) \in FrameIdx
            /\ LastFrame[4 + c * (104 + 28) + i] = MAROC_regs[c][i]

\* C7 (amended): the image of chip c fills the 104 frame bytes from
\* CHIP_OFFSET[c] on, the four slices do not overlap and end at byte 491,
\* consecutive slices are 24 bytes apart, and the bytes of these gaps and
\* bytes 1..3 are as bytearray(492) made them: zero.
C7_Layout24 ==
    (FrameSent /\ quabo_config # <<>>) =>
        /\ \A c \in Chips : \A i \in ByteIdx :
              LastFrame[CHIP_OFFSET[c] + i] = MAROC_regs[c][i]
        /\ \A c \in Chips \ {NCHIPS - 1} :
              CHIP_OFFSET[c + 1] - (CHIP_OFFSET[c] + IMAGE_BYTES) = 24
        /\ CHIP_OFFSET[NCHIPS - 1] + IMAGE_BYTES = FRAME_BYTES
        /\ \A j \in GapIdx \cup {1, 2, 3} : LastFrame[j] = 0
        /\ DOMAIN LastFrame = FrameIdx

\* a frame was sent whose four slices all hold a non-zero image
C7_Witness ==
    /\ FrameSent
    /\ quabo_config # <<>>
    /\ \A c \in Chips : \E i \in ByteIdx : LastFrame[CHIP_OFFSET[c] + i] # 0

\* the tags _make_maroc_cmd has a branch for
Recognised(tag) ==
    \/ tag.name \in DOMAIN PLAIN_POS
    \/ tag.name \in {"DAC1", "DAC2", "MASKOR1", "MASKOR2", "CTEST", "GAIN"}

\* C10 (as claimed): when a recognised tag of the configuration has a number
\* of values other than 4, SetMarocParams ends with an error raised for the
\* number of values (the exception of _set_bits_4 or, read generously, the
\* IndexError of a missing value) and sends no frame.
C10_ArityErrorForEveryTag ==
    (/\ call.op = "SetMarocParams"
     /\ \E k \in 1 .. Len(quabo_config) :
           Recognised(quabo_config[k].tag) /\ Len(quabo_config[k].vals) # 4) =>
        /\ ret \in {"Exception", "IndexError"}
        /\ Len(sent) = call.nsent


\* width of the field a tag writes (0 for a tag _make_maroc_cmd ignores)
FieldWidth(tag) ==
    IF tag.name \in {"DAC1", "DAC2"} THEN 10
    ELSE IF tag.name = "GAIN" THEN 8
    ELSE IF Recognised(tag) THEN 1
    ELSE 0

\* every value of the configuration fits the field of its tag, and the
\* channel of a channel tag is one of the 64 channels
ValuesInRange ==
    \A k \in 1 .. Len(quabo_config) :
        /\ quabo_config[k].tag.chan \in 0 .. 63
        /\ \A j \in 1 .. Len(quabo_config[k].vals) :
              quabo_config[k].vals[j] \in 0 .. (2 ^ FieldWidth(quabo_config[k].tag)) - 1

Reversed(tag) == tag.name \in {"DAC1", "DAC2", "GAIN"}

\* the lowest image bit of a bit-reversed field, as the claim states it
ReversedBase(tag) ==
    IF tag.name = "DAC1" THEN 13
    ELSE IF tag.name = "DAC2" THEN 3
    ELSE 757 - 9 * tag.chan

\* C11: after the register command was built from a configuration with
\* values in range, for every DAC1, DAC2 or GAIN<ch> item the image of chip c
\* holds the field bit-reversed: image bit (base + i) is bit (width - 1 - i)
\* of the value configured for chip c, base 13 / 3 / 757 - 9*ch, width 10 / 10 / 8.
C11_ReversedFields ==
    (FrameSent /\ ValuesInRange) =>
        \A k \in 1 .. Len(quabo_config) :
            Reversed(quabo_config[k].tag) =>
                \A c \in Chips :
                    \A i \in 0 .. (FieldWidth(quabo_config[k].tag) - 1) :
                        ImageBit(MAROC_regs[c], ReversedBase(quabo_config[k].tag) + i)
                          = Bit(quabo_config[k].vals[c + 1],
                                FieldWidth(quabo_config[k].tag) - 1 - i)

\* a command was built from a configuration that sets DAC1 and GAIN63 to
\* values that differ from their own reversal
C11_Witness ==
    /\ FrameSent /\ ValuesInRange
    /\ \E k \in 1 .. Len(quabo_config) :
          /\ quabo_config[k].tag = Tag("GAIN", 63)
          /\ quabo_config[k].vals = <<179, 1, 128, 255>>
    /\ \E k \in 1 .. Len(quabo_config) :
          /\ quabo_config[k].tag = Tag("DAC1", 0)
          /\ quabo_config[k].vals[1] = 677
    /\ ImageBit(MAROC_regs[1], 197) = 1



\* C15 (as claimed): when no reply arrives within the timeout,
\* SetMarocParams(echo=1) returns False to its caller, raises nothing, and
\* has sent the command once.
C15_TimeoutReportedFalse ==
    (call.op = "SetMarocParams" /\ call.echo = 1 /\ reply.kind = "timeout") =>
        /\ ret = "False"
        /\ Len(sent) = call.nsent + 1

-----------------------------------------------------------------------------
(* Properties of Util.reverse_bits *)

\* C12: for every width w in 1..16 and every v in 0..2^w-1 the result of
\* reverse_bits(v, w) lies in 0..2^w-1, and reverse_bits of that result with
\* the same width is v again.
C12_SelfInverse ==
    (call.op = "reverse_bits") =>
        /\ returned.value \in 0 .. (2 ^ call.width) - 1
        /\ call.nth = 2 => returned.value = call.value

\* a 16-bit value that is not its own reversal went through both calls
C12_Witness ==
    /\ call.op = "reverse_bits" /\ call.nth = 2
    /\ call.width = 16 /\ call.value = 4660
    /\ call.mid = 11336
    /\ returned.value = 4660

-----------------------------------------------------------------------------
(* Properties of RecvData *)

\* the i-th recvfrom of the last RecvData met a timeout / a foreign datagram
TimedOut(i) == call.arrivals[i].kind = "timeout"
Foreign(i) == call.arrivals[i].kind = "datagram" /\ call.arrivals[i].src # QUABO_IP

IsPrefix(a, b) == Len(a) <= Len(b) /\ a = SubSeq(b, 1, Len(a))

\* C14 (as claimed): a timeout of the first or of a later receive of
\* RecvData(n) is a normal outcome: the call raises nothing, and the slot of
\* a receive that timed out holds no packet.
C14_TimeoutIsNormal ==
    (call.op = "RecvData" /\ \E i \in 1 .. Len(call.arrivals) : TimedOut(i)) =>
        /\ ret \in {"None", "(None, None)"}
        /\ receiver.data.kind = "array" =>
              \A i \in 1 .. Len(call.arrivals) :
                  TimedOut(i) => receiver.data.slots[i].kind # "bytes"

\* C16 (as claimed): when RecvData received a datagram from another sender
\* than the Quabo, the ParseData call that follows raises nothing.
C16_ForeignNeverFailsDecode ==
    (/\ call.op = "ParseData" /\ call.prev_op = "RecvData"
     /\ call.arrivals[1].kind = "datagram"
     /\ \E i \in 1 .. Len(call.arrivals) : Foreign(i)) =>
        ret = "None"

\* the records ParseData returned (none when it raised or was not called)
ParsedRecords ==
    IF call.op = "ParseData" /\ returned.kind = "value"
    THEN {returned.value[k] : k \in 1 .. Len(returned.value)}
    ELSE {}

\* the record the decoder makes of the foreign payload cut to n bytes
ForeignRecord(n, timestamp) ==
    IF receiver.class = "HKRecv"
    THEN hk_record(Take(OtherPayload(receiver.class), n), timestamp)
    ELSE sci_record(Take(OtherPayload(receiver.class), n), timestamp, call.mode)

\* C17: whatever the receives of RecvData met, no slot of self.data holds the
\* payload (or a cut of the payload) of a datagram from another sender, and
\* no record returned by ParseData is decoded from one.
C17_ForeignNeverStored ==
    /\ receiver.data.kind = "array" =>
          \A i \in 1 .. Len(receiver.data.slots) :
              receiver.data.slots[i].kind = "bytes" =>
                  ~IsPrefix(receiver.data.slots[i].bytes, OtherPayload(receiver.class))
    /\ \A r \in ParsedRecords :
          r # Zero =>
              \A n \in {HK_PKTLEN, PKTLEN["8bit"], PKTLEN["16bit"]} :
                  Value(r) # ForeignRecord(n, r["timestamp"])

\* a foreign datagram came second of three, after one from the Quabo, and the
\* call gave up its array
C17_Witness ==
    /\ call.op = "RecvData"
    /\ Len(call.arrivals) = 3
    /\ call.arrivals[1].kind = "datagram" /\ call.arrivals[1].src = QUABO_IP
    /\ Foreign(2)
    /\ receiver.data = None
    /\ ret = "(None, None)"

-----------------------------------------------------------------------------
(* Properties of the decoders *)

\* the payload of the one datagram the last RecvData received
Packet == call.arrivals[1].bytes

\* ParseData returned the record of that datagram
Decoded(class) ==
    /\ call.op = "ParseData" /\ call.prev_op = "RecvData"
    /\ receiver.class = class
    /\ Len(call.arrivals) = 1
    /\ returned.kind = "value"
    /\ Len(returned.value) = 1

Record == returned.value[1]

\* bytes lo, hi as a signed little-endian 16-bit integer
Signed16(lo, hi) ==
    IF lo + 256 * hi >= 32768 THEN lo + 256 * hi - 65536 ELSE lo + 256 * hi

PhCase == Decoded("DataRecv") /\ call.mode = "ph" /\ Len(Packet) = 528

\* C18 (as claimed): the data sequence of a decoded 'ph' packet has length
\* 512 and its first sample is bytes 16..17 as a signed little-endian 16-bit
\* integer.
C18_Ph512Samples ==
    PhCase =>
        /\ Len(Record["data"]) = 512
        /\ Record["data"][1] = Signed16(Packet[17], Packet[18])

\* C18 (amended): the data sequence has length 256, one sample for each two
\* of the 512 payload bytes at offsets 16..527, and sample j (from 0) is bytes
\* 16+2j, 17+2j as a signed little-endian 16-bit integer; the first sample is
\* bytes 16..17.
C18_Ph256Samples ==
    PhCase =>
        /\ Len(Record["data"]) = 256
        /\ \A j \in 0 .. 255 :
              Record["data"][j + 1] = Signed16(Packet[17 + 2 * j], Packet[18 + 2 * j])

\* a 'ph' packet whose first sample is negative was decoded
C18_Witness ==
    /\ PhCase
    /\ Packet[17] = 255 /\ Packet[18] = 128
    /\ Record["data"][1] = -32513

\* the decoding of a header field the claim states: the slice at the declared
\* offset under the declared type, boardloc rendered as an address
sci_field_at_offset(v, data) ==
    FirstItem(unpack(v.type, v.length, Slice(data, v.offset, v.length)),
              LAMBDA r : IF v.name = "boardloc" THEN boardloc_str(r) ELSE r)

\* C19 (as claimed): every header field of a decoded science packet comes
\* from the slice at its declared offset; boardloc is
\* 192.168.<r div 256>.<r mod 256> with r the little-endian 16-bit value of
\* bytes 4..5.
C19_BoardlocFromOffset4 ==
    Decoded("DataRecv") =>
        /\ \A k \in 1 .. Len(DaqPktDef) :
              Record[DaqPktDef[k].name] = sci_field_at_offset(DaqPktDef[k], Packet).value
        /\ Record["boardloc"] =
              <<192, 168, (Packet[5] + 256 * Packet[6]) \div 256,
                          (Packet[5] + 256 * Packet[6]) % 256>>

\* the primitive decode of a field's raw bytes under its declared type
hk_field_typed(v, pkt) ==
    FirstItem(unpack(v.type, v.length, Slice(pkt, v.offset, v.length)),
              LAMBDA r : r)

\* the housekeeping fields with no bit, no scale and no special rule
PlainHKField(v) ==
    /\ v.bit = -1 /\ v.lsb = "1" /\ v.constant = "0"
    /\ v.name \notin {"uid", "fwtime", "fwver", "boardloc"}

\* C20 (as claimed): a housekeeping field with no bit, no scale and no
\* special rule decodes to the primitive decode of its raw bytes under its
\* declared type; the signed-byte 'tag' decodes 0x80..0xFF to -128..-1.
C20_TagSignedByte ==
    Decoded("HKRecv") =>
        /\ \A k \in 1 .. Len(HKPktDef) :
              PlainHKField(HKPktDef[k]) =>
                  Record[HKPktDef[k].name] = hk_field_typed(HKPktDef[k], Packet).value
        /\ Record["tag"] = (IF Packet[1] >= 128 THEN Packet[1] - 256 ELSE Packet[1])

\* the bytes a packet must have to be decoded by the last ParseData
NeededLen ==
    IF receiver.class = "HKRecv" THEN 64
    ELSE IF call.mode = "movie_8bit" THEN 16 + 256
    ELSE 16 + 512

\* the last call was a ParseData over an array with a buffer that is too short
ShortBufferParsed ==
    /\ call.op = "ParseData" /\ call.prev_op = "RecvData"
    /\ receiver.data.kind = "array"
    /\ \E i \in 1 .. Len(receiver.data.slots) :
          /\ receiver.data.slots[i].kind = "bytes"
          /\ Len(receiver.data.slots[i].bytes) < NeededLen

\* C21: decoding a housekeeping buffer shorter than 64 bytes, or a science
\* buffer shorter than header plus payload of the mode, fails with an error:
\* ParseData raises (struct.error, or IndexError for a missing single byte)
\* and so returns no record for it, neither partial nor filled with defaults.
C21_ShortBufferFails ==
    ShortBufferParsed =>
        /\ returned.kind = "raise"
        /\ ret \in {"struct.error", "IndexError"}

\* a 'ph' packet one byte short arrived after a complete one and ParseData
\* raised struct.error
C21_Witness ==
    /\ ShortBufferParsed
    /\ receiver.class = "DataRecv" /\ call.mode = "ph"
    /\ Len(call.arrivals) = 2
    /\ Len(receiver.data.slots[1].bytes) = 528
    /\ Len(receiver.data.slots[2].bytes) = 527
    /\ ret = "struct.error"

-----------------------------------------------------------------------------
(* QuaboConfig simple commands: make_cmd, HvConfig, SetHv *)

CMD_BYTES == 64
OPCODE_HV == 2
CmdIdx == 0 .. (CMD_BYTES - 1)

MaxHvConfigs == 1
MaxHvSends == 1

\* self.make_cmd(cmd): bytearray(64), cleared, the opcode in byte 0
make_cmd(cmd) == [i \in CmdIdx |-> IF i = 0 THEN cmd ELSE 0]

\* one pass of "for i in range(4)" that writes the channels of every mask
hv_step_all_channels(cmd, status, chan, hv, i) ==
    IF status = "on"
    THEN [cmd EXCEPT ![2 * i + 2] = hv[i] % 256,
                     ![2 * i + 3] = (hv[i] \div 256) % 256]
    ELSE cmd

\* one pass of "for i in range(4)" in SetHv
hv_step(cmd, status, chan, hv, i) ==
    IF status = "on"
    THEN IF Bit(chan, i) # 0
         THEN [cmd EXCEPT ![2 * i + 2] = hv[i] % 256,
                          ![2 * i + 3] = (hv[i] \div 256) % 256]
         ELSE [cmd EXCEPT ![2 * i + 2] = 0, ![2 * i + 3] = 0]
    ELSE IF status = "off"
    THEN IF Bit(chan, i) # 0
         THEN [cmd EXCEPT ![2 * i + 2] = 0, ![2 * i + 3] = 0]
         ELSE cmd
    ELSE cmd

RECURSIVE hv_loop(_, _, _, _, _)
hv_loop(cmd, status, chan, hv, i) ==
    IF i = 4 THEN cmd
    ELSE hv_loop(hv_step(cmd, status, chan, hv, i), status, chan, hv, i + 1)

\* self.SetHv(status, chan): flush_rx_buf() only drains datagrams that are
\* waiting on the command socket; then the frame is sent once
SetHv(status, chan) ==
    /\ sent' = Append(sent, hv_loop(make_cmd(OPCODE_HV), status, chan, hv_config, 0))
    /\ ret' = "None"
    /\ call' = [NoCall EXCEPT !.op = "SetHv", !.mode = status, !.value = chan,
                        !.nsent = Len(sent), !.configs = call.configs,
                        !.prev_op = call.op]
    /\ UNCHANGED <<MAROC_regs, quabo_config, reply, pre_regs, swapped_regs,
                   receiver, returned, ext_vars>>

\* self.HvConfig(chan, value)
HvConfig(chan, value) ==
    /\ hv_config' = [hv_config EXCEPT ![chan] = value]
    /\ ret' = "None"
    /\ call' = [NoCall EXCEPT !.op = "HvConfig", !.chip = chan, !.value = value,
                        !.nsent = Len(sent), !.configs = call.configs + 1,
                        !.prev_op = call.op]
    /\ UNCHANGED <<config_vars, receiver, returned, dest_ips, daq_params, tftp>>

\* HV settings: none, a 16-bit pattern, the largest 16-bit value, a wider one
HvValues == {0, 4660, 65535, 70000}
HvStatus == {"on", "off", "standby"}
ChanMasks == 0 .. 15

\* quabo_config.json gave every channel its own setting
InitHv ==
    /\ MAROC_regs = ZeroRegs
    /\ quabo_config = <<>>
    /\ sent = <<>>
    /\ ret = "none"
    /\ reply = NoReply
    /\ call = NoCall
    /\ pre_regs = MAROC_regs
    /\ swapped_regs = MAROC_regs
    /\ receiver = NoReceiver
    /\ returned = NoValue
    /\ hv_config = [i \in HvChans |-> 257 * (i + 1) + 256]
    /\ dest_ips = NoDests
    /\ daq_params = NoParams
    /\ tftp = NoTftp

ConfigureHv ==
    /\ call.configs < MaxHvConfigs
    /\ \E chan \in HvChans, value \in HvValues : HvConfig(chan, value)

SendHv ==
    /\ Len(sent) < MaxHvSends
    /\ \E status \in HvStatus, chan \in ChanMasks : SetHv(status, chan)

NextHv == ConfigureHv \/ SendHv

SpecHv == InitHv /\ [][NextHv]_vars

-----------------------------------------------------------------------------
(* Properties of the high-voltage command *)

\* C22: SetHv sends exactly one 64-byte frame with opcode 0x02 in byte 0; for
\* status 'on' bytes 2+2i and 3+2i hold the low and the high byte of the
\* configured HV_i for every channel i whose bit is set in chan and zero for
\* every other channel; for 'off' bytes 2..9 are zero for every mask; all
\* remaining bytes are zero.
C22_HvFrame ==
    call.op = "SetHv" /\ call.mode \in {"on", "off"} =>
        /\ Len(sent) = call.nsent + 1
        /\ DOMAIN LastFrame = CmdIdx
        /\ LastFrame[0] = 2
        /\ \A i \in HvChans :
              IF call.mode = "on" /\ Bit(call.value, i) = 1
              THEN /\ LastFrame[2 + 2 * i] = hv_config[i] % 256
                   /\ LastFrame[3 + 2 * i] = (hv_config[i] \div 256) % 256
              ELSE /\ LastFrame[2 + 2 * i] = 0
                   /\ LastFrame[3 + 2 * i] = 0
        /\ \A k \in CmdIdx \ (0 .. 9) : LastFrame[k] = 0
        /\ LastFrame[1] = 0

\* SetHv('on', 0b0101) after HvConfig(2, 4660): channel 2 carries 0x34 0x12,
\* channel 0 its setting from the file, channels 1 and 3 nothing
C22_Witness ==
    /\ call.op = "SetHv" /\ call.mode = "on" /\ call.value = 5
    /\ call.prev_op = "HvConfig"
    /\ hv_config[2] = 4660
    /\ LastFrame[6] = 52 /\ LastFrame[7] = 18
    /\ LastFrame[2] = 1 /\ LastFrame[3] = 2
    /\ hv_config[1] # 0 /\ LastFrame[4] = 0 /\ LastFrame[5] = 0

-----------------------------------------------------------------------------
(* QuaboConfig destination addresses: PhPktDestConfig, moviePktDestConfig, *)
(* SetDataPktDest.  A destination string is the sequence of its pieces     *)
(* between the dots, each piece the sequence of its decimal digits.        *)

OPCODE_DEST == 10
MAC_REPLY_BYTES == 12

MaxDestConfigs == 2
MaxDestSends == 1

RECURSIVE int(_)
\* int(piece) of a string of decimal digits
int(digits) ==
    IF Len(digits) = 0 THEN 0
    ELSE 10 * int(SubSeq(digits, 1, Len(digits) - 1)) + digits[Len(digits)]

\* Util.ip_addr_str_to_bytes(ip_addr_str): the bytearray, or the exception
ip_addr_str_to_bytes(pieces) ==
    IF Len(pieces) # 4 THEN Raise("Exception")
    ELSE IF \E i \in 1 .. 4 : int(pieces[i]) < 0 \/ int(pieces[i]) > 255
    THEN Raise("Exception")
    ELSE Value([i \in 0 .. 3 |-> int(pieces[i + 1])])

\* socket.gethostbyname(name): a dotted IPv4 address is returned as it is
gethostbyname(name) == name

\* d[key] = value on a dict
set_key(d, key, value) == (key :> value) @@ d

\* self.PhPktDestConfig(dest_str)
PhPktDestConfig(dest_str) ==
    /\ dest_ips' = set_key(dest_ips, "PH", dest_str)
    /\ ret' = "None"
    /\ call' = [NoCall EXCEPT !.op = "PhPktDestConfig", !.nsent = Len(sent),
                        !.configs = call.configs + 1, !.prev_op = call.op,
                        !.ph_dest = dest_str, !.movie_dest = call.movie_dest]
    /\ UNCHANGED <<config_vars, receiver, returned, hv_config, daq_params, tftp>>

\* self.moviePktDestConfig(dest_str)
moviePktDestConfig(dest_str) ==
    /\ dest_ips' = set_key(dest_ips, "movie", dest_str)
    /\ ret' = "None"
    /\ call' = [NoCall EXCEPT !.op = "moviePktDestConfig", !.nsent = Len(sent),
                        !.configs = call.configs + 1, !.prev_op = call.op,
                        !.ph_dest = call.ph_dest, !.movie_dest = dest_str]
    /\ UNCHANGED <<config_vars, receiver, returned, hv_config, daq_params, tftp>>

\* cmd = make_cmd(0x0a); cmd[i+1] = ph[i]; cmd[i+5] = movie[i], i = 0..3
dest_cmd(ph, movie) ==
    [i \in CmdIdx |->
        IF i >= 1 /\ i <= 4 THEN ph[i - 1]
        ELSE IF i >= 5 /\ i <= 8 THEN movie[i - 5]
        ELSE make_cmd(OPCODE_DEST)[i]]

\* the reply of the device to a destination command: the two MAC addresses,
\* a datagram of another length, or nothing within the socket timeout
MacReply(len) == [k \in 1 .. len |-> (16 * k + 2) % 256]
recv_mac(len) == IF len = 0 THEN Timeout ELSE Data(MacReply(len))

\* the dict SetDataPktDest returns: struct.unpack('6B', ...) of each half
mac_addr(data) == [PH |-> Slice(data, 0, 6), MOVIE |-> Slice(data, 6, 12)]

\* self.SetDataPktDest(), the device answering with len bytes
SetDataPktDest(len) ==
    \E ph \in {IF "PH" \in DOMAIN dest_ips /\ "MOVIE" \in DOMAIN dest_ips
               THEN ip_addr_str_to_bytes(gethostbyname(dest_ips["PH"]))
               ELSE Raise("KeyError")} :
      \E movie \in {IF ph.kind = "raise" THEN ph
                    ELSE ip_addr_str_to_bytes(gethostbyname(dest_ips["MOVIE"]))} :
        LET sends == movie.kind = "value"
            rx == IF sends THEN recv_mac(len) ELSE NoReply
        IN /\ sent' = IF sends THEN Append(sent, dest_cmd(ph.value, movie.value))
                      ELSE sent
           /\ reply' = rx
           /\ ret' = IF ~sends THEN movie.exc
                     ELSE IF rx.kind = "timeout" THEN "TypeError"
                     ELSE IF Len(rx.data) # MAC_REPLY_BYTES THEN "False"
                     ELSE "mac_addr"
           /\ returned' = IF sends /\ rx.kind = "data"
                             /\ Len(rx.data) = MAC_REPLY_BYTES
                          THEN Value(mac_addr(rx.data)) ELSE NoValue
           /\ call' = [NoCall EXCEPT !.op = "SetDataPktDest", !.nsent = Len(sent),
                            !.configs = call.configs, !.prev_op = call.op,
                            !.ph_dest = call.ph_dest,
                            !.movie_dest = call.movie_dest]
           /\ UNCHANGED <<MAROC_regs, quabo_config, pre_regs, swapped_regs,
                          receiver, ext_vars>>

\* "192.168.1.100", "10.0.0.1", "255.255.255.254", "192.168.3.248"
DestStrings ==
    { << <<1, 9, 2>>, <<1, 6, 8>>, <<1>>, <<1, 0, 0>> >>,
      << <<1, 0>>, <<0>>, <<0>>, <<1>> >>,
      << <<2, 5, 5>>, <<2, 5, 5>>, <<2, 5, 5>>, <<2, 5, 4>> >>,
      << <<1, 9, 2>>, <<1, 6, 8>>, <<3>>, <<2, 4, 8>> >> }

ReplyLens == {0, 5, MAC_REPLY_BYTES}

\* quabo_config.json names a destination under each of 'PH', 'MOVIE', 'HK'
InitDest ==
    /\ MAROC_regs = ZeroRegs
    /\ quabo_config = <<>>
    /\ sent = <<>>
    /\ ret = "none"
    /\ reply = NoReply
    /\ call = NoCall
    /\ pre_regs = MAROC_regs
    /\ swapped_regs = MAROC_regs
    /\ receiver = NoReceiver
    /\ returned = NoValue
    /\ hv_config = ZeroHv
    /\ \E d \in {<< <<1, 9, 2>>, <<1, 6, 8>>, <<1>>, <<1, 0, 0>> >>,
                 << <<1, 9, 2>>, <<1, 6, 8>>, <<3>>, <<2, 4, 8>> >>} :
          dest_ips = [k \in {"PH", "MOVIE", "HK"} |-> d]
    /\ daq_params = NoParams
    /\ tftp = NoTftp

ConfigurePhDest ==
    /\ call.configs < MaxDestConfigs
    /\ \E d \in DestStrings : PhPktDestConfig(d)

ConfigureMovieDest ==
    /\ call.configs < MaxDestConfigs
    /\ \E d \in DestStrings : moviePktDestConfig(d)

SendDest ==
    /\ Len(sent) < MaxDestSends
    /\ \E len \in ReplyLens : SetDataPktDest(len)

NextDest == ConfigurePhDest \/ ConfigureMovieDest \/ SendDest

SpecDest == InitDest /\ [][NextDest]_vars

-----------------------------------------------------------------------------
(* Properties of the destination command *)

\* the four octets of a destination string
Octets(d) == [i \in 0 .. 3 |-> int(d[i + 1])]

DestSent == call.op = "SetDataPktDest" /\ Len(sent) = call.nsent + 1

\* C23: a configured destination reaches the device: after
\* moviePktDestConfig(d) the next SetDataPktDest sends a 64-byte frame with
\* opcode 0x0a whose bytes 5..8 are the four octets of d, and after
\* PhPktDestConfig(d) its bytes 1..4 are the four octets of d.
C23_ConfiguredDestSent ==
    call.op = "SetDataPktDest" =>
        /\ Len(sent) = call.nsent + 1
        /\ DOMAIN LastFrame = CmdIdx
        /\ LastFrame[0] = 10
        /\ call.ph_dest # <<>> =>
              \A i \in 0 .. 3 : LastFrame[1 + i] = Octets(call.ph_dest)[i]
        /\ call.movie_dest # <<>> =>
              \A i \in 0 .. 3 : LastFrame[5 + i] = Octets(call.movie_dest)[i]

\* the movie destination was configured and the frame carries another address
C23_MovieDestLost ==
    /\ DestSent
    /\ call.movie_dest # <<>>
    /\ \E i \in 0 .. 3 : LastFrame[5 + i] # Octets(call.movie_dest)[i]

\* the PH half alone: the configured PH destination is in bytes 1..4
C23_PhDestSent ==
    call.op = "SetDataPktDest" /\ call.ph_dest # <<>> =>
        /\ DestSent
        /\ \A i \in 0 .. 3 : LastFrame[1 + i] = Octets(call.ph_dest)[i]

-----------------------------------------------------------------------------
(* DAQ_PARAMS and QuaboConfig.DaqParamsConfig *)

OPCODE_DAQ == 3
FLASH_RATES == 8

MaxDaqCalls == 2
MaxParamSets == 1

\* DAQ_PARAMS(do_image, image_us, image_8bit, do_ph, bl_subtract): the flash
\* and stim attributes do not exist until their setter ran (0 stands for that)
DAQ_PARAMS(do_image, image_us, image_8bit, do_ph, bl_subtract) ==
    [do_image |-> do_image, image_us |-> image_us, image_8bit |-> image_8bit,
     do_ph |-> do_ph, bl_subtract |-> bl_subtract,
     do_any_trigger |-> FALSE, do_group_ph_frames |-> FALSE,
     do_flash |-> FALSE, flash_rate |-> 0, flash_level |-> 0, flash_width |-> 0,
     do_stim |-> FALSE, stim_rate |-> 0, stim_level |-> 0]

\* the mode byte: IMAGE_16BIT 0x2, IMAGE_8BIT 0x4, PULSE_HEIGHT 0x1,
\* NO_BASELINE_SUBTRACT 0x10, each or-ed in once
acq_mode(params) ==
    (IF params.do_image THEN 2 ELSE 0) + (IF params.image_8bit THEN 4 ELSE 0)
        + (IF params.do_ph THEN 1 ELSE 0) + (IF params.bl_subtract THEN 0 ELSE 16)

\* cmd[i] = v on a bytearray: ValueError unless v is in range(0, 256)
IsByte(v) == v >= 0 /\ v <= 255

\* the statements of DaqParamsConfig after "params.image_us = params.image_us - 1",
\* params being the object after that assignment: the frame handed to send,
\* or the first exception
daq_cmd(params) ==
    LET us == params.image_us
        base == [make_cmd(OPCODE_DAQ) EXCEPT ![2] = acq_mode(params),
                                             ![4] = us % 256, ![12] = 69]
    IN  IF ~IsByte(us \div 256) THEN Raise("ValueError")
        ELSE IF params.do_flash /\ ~IsByte(params.flash_rate) THEN Raise("ValueError")
        ELSE IF params.do_flash /\ params.flash_rate >= FLASH_RATES
        THEN Raise("IndexError")
        ELSE IF params.do_flash /\ ~IsByte(params.flash_level) THEN Raise("ValueError")
        ELSE IF params.do_flash /\ ~IsByte(params.flash_width) THEN Raise("ValueError")
        ELSE IF params.do_stim /\ ~IsByte(params.stim_level) THEN Raise("ValueError")
        ELSE IF params.do_stim /\ ~IsByte(params.stim_rate) THEN Raise("ValueError")
        \* LSBParams['stim'][params.stim_rate]: the dict has the one key 'rate'
        ELSE IF params.do_stim THEN Raise("KeyError")
        ELSE Value([i \in CmdIdx |->
                IF i = 5 THEN us \div 256
                ELSE IF params.do_flash /\ i = 22 THEN params.flash_rate
                ELSE IF params.do_flash /\ i = 24 THEN params.flash_level
                ELSE IF params.do_flash /\ i = 26 THEN params.flash_width
                ELSE base[i]])

\* self.DaqParamsConfig(params), params being the caller's object
DaqParamsConfig ==
    /\ daq_params' = [daq_params EXCEPT !.image_us = @ - 1]
    /\ \E r \in {daq_cmd([daq_params EXCEPT !.image_us = @ - 1])} :
          /\ sent' = IF r.kind = "value" THEN Append(sent, r.value) ELSE sent
          /\ ret' = IF r.kind = "value" THEN "None" ELSE r.exc
    /\ call' = [NoCall EXCEPT !.op = "DaqParamsConfig", !.nsent = Len(sent),
                        !.value = daq_params.image_us,
                        !.builds = call.builds + 1, !.configs = call.configs,
                        !.prev_op = call.op, !.prev_sent = (ret = "None")]
    /\ UNCHANGED <<MAROC_regs, quabo_config, reply, pre_regs, swapped_regs,
                   receiver, returned, hv_config, dest_ips, tftp>>

\* params.set_flash_params(rate, level, width)
set_flash_params(rate, level, width) ==
    /\ daq_params' = [daq_params EXCEPT !.do_flash = TRUE, !.flash_rate = rate,
                             !.flash_level = level, !.flash_width = width]
    /\ ret' = "None"
    /\ call' = [NoCall EXCEPT !.op = "set_flash_params", !.nsent = Len(sent),
                        !.builds = call.builds, !.configs = call.configs + 1,
                        !.prev_op = call.op]
    /\ UNCHANGED <<config_vars, receiver, returned, hv_config, dest_ips, tftp>>

\* params.set_stim_params(rate, level)
set_stim_params(rate, level) ==
    /\ daq_params' = [daq_params EXCEPT !.do_stim = TRUE, !.stim_rate = rate,
                             !.stim_level = level]
    /\ ret' = "None"
    /\ call' = [NoCall EXCEPT !.op = "set_stim_params", !.nsent = Len(sent),
                        !.builds = call.builds, !.configs = call.configs + 1,
                        !.prev_op = call.op]
    /\ UNCHANGED <<config_vars, receiver, returned, hv_config, dest_ips, tftp>>

\* integration times: the shortest, one frame byte, two bytes, and too long
ImageUs == {0, 1, 256, 1000, 65536, 65537}

InitDaq ==
    /\ MAROC_regs = ZeroRegs
    /\ quabo_config = <<>>
    /\ sent = <<>>
    /\ ret = "none"
    /\ reply = NoReply
    /\ call = NoCall
    /\ pre_regs = MAROC_regs
    /\ swapped_regs = MAROC_regs
    /\ receiver = NoReceiver
    /\ returned = NoValue
    /\ hv_config = ZeroHv
    /\ dest_ips = NoDests
    /\ \E do_image, image_8bit, do_ph, bl_subtract \in BOOLEAN, image_us \in ImageUs :
          daq_params = DAQ_PARAMS(do_image, image_us, image_8bit, do_ph, bl_subtract)
    /\ tftp = NoTftp

SendDaqParams ==
    /\ call.builds < MaxDaqCalls
    /\ DaqParamsConfig

SetFlash ==
    /\ call.configs < MaxParamSets
    /\ \E rate \in {1, 7, 8}, level \in {31, 256} : set_flash_params(rate, level, 15)

SetStim ==
    /\ call.configs < MaxParamSets
    /\ \E rate \in {0, 7} : set_stim_params(rate, 255)

NextDaq == SendDaqParams \/ SetFlash \/ SetStim

SpecDaq == InitDaq /\ [][NextDaq]_vars

-----------------------------------------------------------------------------
(* Properties of the acquisition command *)

\* the last two calls were DaqParamsConfig on the same object and both returned
TwoDaqCalls ==
    /\ call.op = "DaqParamsConfig" /\ call.prev_op = "DaqParamsConfig"
    /\ call.prev_sent /\ ret = "None"

\* C26: DaqParamsConfig does not modify the DAQ_PARAMS object passed to it:
\* calling it twice with the same object sends two identical 64-byte frames
\* (opcode 0x03) with the same integration time in bytes 4..5.
C26_ParamsNotModified ==
    /\ call.op = "DaqParamsConfig" => daq_params.image_us = call.value
    /\ TwoDaqCalls =>
          /\ Len(sent) >= 2
          /\ DOMAIN LastFrame = CmdIdx /\ LastFrame[0] = 3
          /\ sent[Len(sent)] = sent[Len(sent) - 1]

\* the second of two calls with image_us = 256 at the start: the frames carry
\* 255 and 254 in bytes 4..5
C26_FramesDiffer ==
    /\ TwoDaqCalls
    /\ Len(sent) = 2
    /\ sent[1][4] = 255 /\ sent[1][5] = 0
    /\ sent[2][4] = 254 /\ sent[2][5] = 0
    /\ daq_params.image_us = 254

-----------------------------------------------------------------------------
(* The bit ranges of the recognised tags: two rounds of the loop of        *)
(* _make_maroc_cmd, each writing one tag, from cleared images              *)

NCHANNELS == 64
Channels == 0 .. (NCHANNELS - 1)

\* every tag _make_maroc_cmd recognises, the channel families with ch in 0..63
AllTags ==
    {Tag(n, 0) : n \in DOMAIN PLAIN_POS \cup {"DAC1", "DAC2"}}
        \cup {Tag(f, ch) : f \in {"MASKOR1", "MASKOR2", "CTEST", "GAIN"}, ch \in Channels}

\* the value with every bit of the tag's field set
FullValue(tag) ==
    IF tag.name \in {"DAC1", "DAC2"} THEN 1023
    ELSE IF tag.name = "GAIN" THEN 255
    ELSE 1

\* one round of "for tag, val in maroc_config.items()" up to the copy into cmd
WriteTag(tag, v) ==
    \E a \in {apply_tag(MAROC_regs, tag, <<v, v, v, v>>)} :
        /\ MAROC_regs' = a[2]
        /\ ret' = a[1]
        /\ call' = [NoCall EXCEPT !.op = "WriteTag", !.vals = Append(call.vals, tag),
                            !.value = v, !.nth = call.nth + 1, !.prev_op = call.op]
        /\ pre_regs' = MAROC_regs
        /\ UNCHANGED <<quabo_config, sent, reply, swapped_regs, receiver, returned,
                       ext_vars>>

\* the first tag of a configuration, every bit of its field set
WriteFirst ==
    /\ call.nth = 0
    /\ \E tag \in AllTags : WriteTag(tag, FullValue(tag))

\* a later tag, every bit of its field set or every bit clear
WriteSecond ==
    /\ call.nth = 1
    /\ \E tag \in AllTags \ {call.vals[1]} :
          \E v \in {0, FullValue(tag)} : WriteTag(tag, v)

NextTags == WriteFirst \/ WriteSecond

SpecTags == InitUtil /\ [][NextTags]_vars

-----------------------------------------------------------------------------
(* Properties of the tag layout *)

\* the bit range of a tag as the layout states it
TagRange(tag) ==
    IF tag.name \in {"OTABG_ON", "DAC_ON", "SMALL_DAC", "ENB_OUT_ADC",
                     "INV_START_GRAY", "RAMP8B", "RAMP10B"}
        \/ (tag.name \in DOMAIN PLAIN_POS /\ PLAIN_POS[tag.name] \in 155 .. 188)
    THEN {PLAIN_POS[tag.name]}
    ELSE IF tag.name = "DAC2" THEN 3 .. 12
    ELSE IF tag.name = "DAC1" THEN 13 .. 22
    ELSE IF tag.name = "MASKOR1" THEN {154 - 2 * tag.chan}
    ELSE IF tag.name = "MASKOR2" THEN {153 - 2 * tag.chan}
    ELSE IF tag.name = "GAIN" THEN (757 - 9 * tag.chan) .. (764 - 9 * tag.chan)
    ELSE IF tag.name = "CTEST" THEN {828 - tag.chan}
    ELSE {}

\* the bits that are set in the image of chip c
BitsSet(c) ==
    UNION {{8 * i + b : b \in {k \in 0 .. 7 : Bit(MAROC_regs[c][i], k) = 1}} :
              i \in {j \in ByteIdx : MAROC_regs[c][j] # 0}}

\* C25: the bit ranges of the recognised tags are pairwise disjoint and lie
\* inside [0, 829) for every channel 0..63: every write is accepted and sets
\* exactly the stated range of its tag in each chip, and a later write of
\* another tag, of ones or of zeros, leaves the bits of the earlier tag as
\* they were.
C25_TagRangesDisjoint ==
    call.op = "WriteTag" =>
        /\ ret = "None"
        /\ \A k \in 1 .. Len(call.vals) :
              /\ TagRange(call.vals[k]) # {}
              /\ TagRange(call.vals[k]) \subseteq 0 .. (SERIAL_COMMAND_LENGTH - 1)
        /\ call.nth = 2 => TagRange(call.vals[1]) \cap TagRange(call.vals[2]) = {}
        /\ \A c \in Chips : MAROC_regs[c] = MAROC_regs[0]
        /\ BitsSet(0) = TagRange(call.vals[1])
                \cup (IF call.nth = 2 /\ call.value # 0
                      THEN TagRange(call.vals[2]) ELSE {})

\* GAIN63 (bits 190..197) was written, then CMD_FSU (bit 188): both are set
C25_Witness ==
    /\ call.op = "WriteTag" /\ call.nth = 2 /\ call.value = 1
    /\ call.vals = <<Tag("GAIN", 63), Tag("CMD_FSU", 0)>>
    /\ BitsSet(0) = {188} \cup (190 .. 197)

-----------------------------------------------------------------------------
(* SiPMSimTest._CheckPatternMatch; sequences are indexed from 1 here, the  *)
(* loop variables i, j, k keep the values they have in the code            *)

MaxDataLen == 4
MaxPatternLen == 3
MaxSample == 2

\* the inner loop that reports a match as soon as the first sample agrees
pattern_loop_first_sample(d, p, i, j) == TRUE

RECURSIVE pattern_loop(_, _, _, _)
\* "for j in range(len(d))" from j on, for the start index i: TRUE when the
\* loop sets match, FALSE when it breaks
pattern_loop(d, p, i, j) ==
    IF j >= Len(d) THEN FALSE
    ELSE IF p[((i + j) % Len(p)) + 1] # d[j + 1] THEN FALSE
    ELSE IF j = Len(d) - 1 THEN TRUE
    ELSE pattern_loop(d, p, i, j + 1)

\* self._CheckPatternMatch(d, p): d[0] is read only when p is not empty
CheckPatternMatch(d, p) ==
    IF Len(p) > 0 /\ Len(d) = 0 THEN Raise("IndexError")
    ELSE Value(\E i \in 0 .. (Len(p) - 1) :
                  p[i + 1] = d[1] /\ pattern_loop(d, p, i, 0))

Samples == 0 .. MaxSample
SeqsUpTo(n) == UNION {[1 .. k -> Samples] : k \in 0 .. n}

\* one call on a fresh pair of sequences
CallCheckPatternMatch ==
    /\ call.op = "none"
    /\ \E d \in SeqsUpTo(MaxDataLen), p \in SeqsUpTo(MaxPatternLen) :
      \E r \in {CheckPatternMatch(d, p)} :
        /\ returned' = [kind |-> r.kind, value |-> r.kind = "value" /\ r.value]
        /\ ret' = IF r.kind = "raise" THEN r.exc
                  ELSE IF r.value THEN "True" ELSE "False"
        /\ call' = [NoCall EXCEPT !.op = "_CheckPatternMatch", !.d = d, !.p = p]
        /\ UNCHANGED <<config_vars, receiver, ext_vars>>

NextMatch == CallCheckPatternMatch

SpecMatch == InitUtil /\ [][NextMatch]_vars

\* C27: _CheckPatternMatch(d, p) returns True exactly when the non-empty d
\* equals a cyclic window of the non-empty p: some start index i in
\* 0..len(p)-1 has p[(i+j) mod len(p)] = d[j] for every j in 0..len(d)-1;
\* otherwise it returns False.
C27_CyclicWindow ==
    call.op = "_CheckPatternMatch" /\ Len(call.d) > 0 /\ Len(call.p) > 0 =>
        /\ returned.kind = "value"
        /\ returned.value =
              (\E i \in 0 .. (Len(call.p) - 1) :
                  \A j \in 0 .. (Len(call.d) - 1) :
                      call.p[((i + j) % Len(call.p)) + 1] = call.d[j + 1])
        /\ ret = IF returned.value THEN "True" ELSE "False"

\* d = [1, 2, 0, 1] is the window of p = [0, 1, 2] that starts at index 1 and
\* wraps around: True
C27_Witness ==
    /\ call.op = "_CheckPatternMatch"
    /\ call.d = <<1, 2, 0, 1>> /\ call.p = <<0, 1, 2>>
    /\ ret = "True"

\* d = [1, 2, 1] starts like the window at index 1 of p = [0, 1, 2]: False
C27_WitnessNoMatch ==
    /\ call.op = "_CheckPatternMatch"
    /\ call.d = <<1, 2, 1>> /\ call.p = <<0, 1, 2>>
    /\ ret = "False"

-----------------------------------------------------------------------------
(* QuaboTest.CheckResults.  expected_results is the insertion-ordered       *)
(* sequence of its items, actual_results the sequence of the values found   *)
(* under the same keys, Missing where actual_results has no such key.       *)

MaxEntries == 2
MaxDeviation == 1

StrValue(s) == [kind |-> "str", text |-> s]
Missing == [kind |-> "missing"]

abs(x) == IF x < 0 THEN 0 - x ELSE x

\* abs(e_val) - e_offset > abs(a_val) or abs(e_val) + e_offset < abs(a_val)
out_of_range(e_val, e_offset, a_val) ==
    abs(e_val) - e_offset > abs(a_val) \/ abs(e_val) + e_offset < abs(a_val)

RECURSIVE check_loop(_, _, _, _)
\* "for k, v in expected_results.items()" from item n on
check_loop(expected, actual, n, passed) ==
    IF n > Len(expected) THEN Value(passed)
    ELSE IF ~expected[n].valid THEN check_loop(expected, actual, n + 1, passed)
    ELSE IF actual[n].kind = "missing" THEN Raise("KeyError")
    ELSE IF expected[n].val.kind = "str"
    THEN check_loop(expected, actual, n + 1,
                    passed /\ expected[n].val = actual[n])
    ELSE IF actual[n].kind = "str" THEN Raise("TypeError")
    ELSE check_loop(expected, actual, n + 1,
                    passed /\ ~out_of_range(expected[n].val.value,
                                            expected[n].deviation,
                                            actual[n].value))

\* self.CheckResults(expected_results, actual_results)
CheckResults(expected, actual) == check_loop(expected, actual, 1, TRUE)

ExpectedVals == {IntValue(-2), IntValue(2), StrValue("v1")}
ActualVals ==
    {IntValue(-3), IntValue(-2), IntValue(-1), IntValue(2),
     StrValue("v1"), StrValue("v2"), Missing}
ExpectedItems ==
    [valid : BOOLEAN, val : ExpectedVals, deviation : 0 .. MaxDeviation]

CallCheckResults ==
    /\ call.op = "none"
    /\ \E n \in 1 .. MaxEntries :
         \E expected \in [1 .. n -> ExpectedItems], actual \in [1 .. n -> ActualVals] :
           \E r \in {CheckResults(expected, actual)} :
             /\ returned' = [kind |-> r.kind, value |-> r.kind = "value" /\ r.value]
             /\ ret' = IF r.kind = "raise" THEN r.exc
                       ELSE IF r.value THEN "True" ELSE "False"
             /\ call' = [NoCall EXCEPT !.op = "CheckResults",
                                 !.expected = expected, !.actual = actual]
             /\ UNCHANGED <<config_vars, receiver, ext_vars>>

NextResults == CallCheckResults

SpecResults == InitUtil /\ [][NextResults]_vars

\* an expected entry matches its actual value: equal strings, or numbers
\* with |actual - expected| <= deviation
EntryMatches(e, a) ==
    IF e.val.kind = "str" THEN a = e.val
    ELSE a.kind = "int" /\ abs(a.value - e.val.value) <= e.deviation

\* C28: CheckResults returns True exactly when every expected entry with
\* valid = true matches its actual value: string values are equal, numeric
\* values satisfy |actual - expected| <= deviation; entries with valid =
\* false never affect the result.
C28_WithinDeviation ==
    call.op = "CheckResults" /\ returned.kind = "value" =>
        returned.value =
            (\A n \in 1 .. Len(call.expected) :
                call.expected[n].valid =>
                    EntryMatches(call.expected[n], call.actual[n]))

\* expected 2 with deviation 0 and actual -2: CheckResults returned True
C28_OppositeSignPasses ==
    /\ call.op = "CheckResults"
    /\ Len(call.expected) = 1
    /\ call.expected[1] = [valid |-> TRUE, val |-> IntValue(2), deviation |-> 0]
    /\ call.actual[1] = IntValue(-2)
    /\ ret = "True"

\* the entries with valid = false do not affect the result: a call returns
\* what the call without them returns
C28_InvalidIgnored ==
    call.op = "CheckResults" /\ Len(call.expected) = 2
        /\ ~call.expected[2].valid =>
            LET r == CheckResults(SubSeq(call.expected, 1, 1), SubSeq(call.actual, 1, 1))
            IN  /\ returned.kind = r.kind
                /\ r.kind = "value" => returned.value = r.value

-----------------------------------------------------------------------------
(* tftpw: the uploads into the flash regions.  tftp.uploads is the list of  *)
(* the client.upload calls; a remote name is its prefix and the hexadecimal *)
(* digits that follow it.                                                   *)

WRPC_ADDR == 14680064
WRPC_SIZE == 1114112
MB_ADDR == 15794176
MB_MAX_SIZE == 1048576
BIN_ADDR == 16842752
PROG_BYTES == 4

MaxUploads == 2

RECURSIVE hex(_)
\* str(hex(addr))[2:] as the sequence of its digits
hex(n) == IF n < 16 THEN <<n>> ELSE Append(hex(n \div 16), n % 16)

\* '/flash.' + offset[2:]
flash_name(addr) == [prefix |-> "/flash.", offset |-> hex(addr)]

\* self.client.upload(remote_filename, filename): the transfer completes (ok)
\* or tftpy raises
upload(t, by, remote, size, ok) ==
    [ret |-> IF ok THEN "None" ELSE "TftpException",
     uploads |-> Append(t.uploads,
                        [by |-> by, remote |-> remote, size |-> size, ok |-> ok])]

\* a file on the disk of the host: os.path.getsize raises when it is missing
File(exists, size) == [exists |-> exists, size |-> size]

\* tftpw.put_wrpc_filesys(filename, addr)
put_wrpc_filesys(t, file, addr, ok) ==
    IF ~file.exists THEN [ret |-> "FileNotFoundError", uploads |-> t.uploads]
    ELSE IF file.size # WRPC_SIZE THEN [ret |-> "None", uploads |-> t.uploads]
    ELSE upload(t, "put_wrpc_filesys", flash_name(addr), file.size, ok)

\* put_mb_file without the test of the size
put_mb_file_any_size(t, file, addr, ok) ==
    IF ~file.exists THEN [ret |-> "FileNotFoundError", uploads |-> t.uploads]
    ELSE upload(t, "put_mb_file", flash_name(addr), file.size, ok)

\* tftpw.put_mb_file(filename, addr)
put_mb_file(t, file, addr, ok) ==
    IF ~file.exists THEN [ret |-> "FileNotFoundError", uploads |-> t.uploads]
    ELSE IF file.size > MB_MAX_SIZE THEN [ret |-> "None", uploads |-> t.uploads]
    ELSE upload(t, "put_mb_file", flash_name(addr), file.size, ok)

\* tftpw.put_bin_file(filename, addr): tftpy opens the file, no test of the size
put_bin_file(t, file, addr, ok) ==
    IF ~file.exists THEN [ret |-> "FileNotFoundError", uploads |-> t.uploads]
    ELSE upload(t, "put_bin_file", flash_name(addr), file.size, ok)

\* tftpw.reboot(): the 4 address bytes go to '/progdev'; "except: pass"
reboot(t, ok) ==
    [ret |-> "None",
     uploads |-> upload(t, "reboot", [prefix |-> "/progdev", offset |-> <<>>],
                        PROG_BYTES, ok).uploads]

\* a call of one of the put functions with the default address
Put(by, file, ok) ==
    \E r \in {IF by = "put_wrpc_filesys" THEN put_wrpc_filesys(tftp, file, WRPC_ADDR, ok)
              ELSE put_mb_file(tftp, file, MB_ADDR, ok)} :
        /\ tftp' = [tftp EXCEPT !.uploads = r.uploads]
        /\ ret' = r.ret
        /\ call' = [NoCall EXCEPT !.op = by, !.value = file.size,
                            !.mode = IF file.exists THEN "file" ELSE "missing",
                            !.nsent = Len(tftp.uploads), !.nth = call.nth + 1,
                            !.prev_op = call.op]
        /\ UNCHANGED <<config_vars, receiver, returned, hv_config, dest_ips, daq_params>>

\* file sizes: empty, and one byte around each limit
FileSizes ==
    {0, 1, MB_MAX_SIZE - 1, MB_MAX_SIZE, MB_MAX_SIZE + 1,
     WRPC_SIZE - 1, WRPC_SIZE, WRPC_SIZE + 1}
Files == {File(TRUE, s) : s \in FileSizes} \cup {File(FALSE, 0)}

PutWrpcFilesys ==
    /\ call.nth < MaxUploads
    /\ \E file \in Files, ok \in BOOLEAN : Put("put_wrpc_filesys", file, ok)

PutMbFile ==
    /\ call.nth < MaxUploads
    /\ \E file \in Files, ok \in BOOLEAN : Put("put_mb_file", file, ok)

NextFlash == PutWrpcFilesys \/ PutMbFile

SpecFlash == InitUtil /\ [][NextFlash]_vars

-----------------------------------------------------------------------------
(* Properties of the flash uploads *)

RECURSIVE HexValue(_)
\* the number a sequence of hexadecimal digits denotes
HexValue(digits) ==
    IF digits = <<>> THEN 0
    ELSE 16 * HexValue(SubSeq(digits, 1, Len(digits) - 1)) + digits[Len(digits)]

\* the last byte of the region a put function writes to
RegionEnd(by) == IF by = "put_wrpc_filesys" THEN 15794175 ELSE 16842751

\* C30: put_wrpc_filesys uploads only a file of exactly 0x110000 bytes and
\* put_mb_file only a file of at most 0x100000 bytes, so a write starting at
\* the default address ends inside its region (wrpc 0x00E00000..0x00F0FFFF,
\* mb 0x00F10000..0x0100FFFF); a file that violates the size rule causes no
\* upload.
C30_WritesStayInRegion ==
    /\ \A k \in 1 .. Len(tftp.uploads) :
          LET u == tftp.uploads[k]
          IN  u.by \in {"put_wrpc_filesys", "put_mb_file"} =>
                /\ u.by = "put_wrpc_filesys" => u.size = 1114112
                /\ u.by = "put_mb_file" => u.size <= 1048576
                /\ u.remote.prefix = "/flash."
                /\ HexValue(u.remote.offset) =
                      (IF u.by = "put_wrpc_filesys" THEN 14680064 ELSE 15794176)
                /\ HexValue(u.remote.offset) + u.size - 1 <= RegionEnd(u.by)
    /\ call.op = "put_wrpc_filesys" /\ call.value # 1114112 =>
          Len(tftp.uploads) = call.nsent
    /\ call.op = "put_mb_file" /\ call.value > 1048576 =>
          Len(tftp.uploads) = call.nsent

\* a full-size mb file went to '/flash.f10000' after a wrpc file one byte
\* short was refused
C30_Witness ==
    /\ call.op = "put_mb_file" /\ call.prev_op = "put_wrpc_filesys"
    /\ call.value = 1048576
    /\ Len(tftp.uploads) = 1
    /\ tftp.uploads[1].remote.offset = <<15, 1, 0, 0, 0, 0>>
    /\ tftp.uploads[1].size = 1048576 /\ tftp.uploads[1].ok

-----------------------------------------------------------------------------
(* upload_firmware.py: the script after the first ping succeeded and the    *)
(* tftpw client was made.  tftp.pc is the "if" block the script is at,      *)
(* tftp.stage its variable stage, tftp.performed the blocks whose upload    *)
(* function was called.                                                     *)

\* a file option: not given on the command line, or the file it names
NotGiven == [given |-> FALSE, exists |-> FALSE, size |-> 0]
Given(file) == [given |-> TRUE, exists |-> file.exists, size |-> file.size]

\* one "if opts.<x> and stage == '<x>':" block: name is the stage, opt its
\* file option, next the stage that follows, r the outcome of the put call
UploadBlock(name, opt, next, r) ==
    /\ tftp.pc = name
    /\ IF opt.given /\ tftp.stage = name
       THEN IF ~opt.exists
            THEN /\ tftp' = [tftp EXCEPT !.pc = "exit"]
                 /\ ret' = "SystemExit"
            ELSE /\ tftp' = [tftp EXCEPT
                        !.uploads = r.uploads,
                        !.performed = Append(@, name),
                        !.stage = IF r.ret = "None" THEN next ELSE @,
                        !.pc = IF r.ret = "None" THEN next ELSE "crash"]
                 /\ ret' = r.ret
       ELSE /\ tftp' = [tftp EXCEPT !.pc = next]
            /\ ret' = "None"
    /\ call' = [NoCall EXCEPT !.op = name, !.prev_op = call.op]
    /\ UNCHANGED <<config_vars, receiver, returned, hv_config, dest_ips, daq_params>>

\* tftp_client.put_bin_file(opts.gold, 0)
UploadGold ==
    \E ok \in BOOLEAN :
        UploadBlock("gold", tftp.opts.gold, "silver",
                    put_bin_file(tftp, tftp.opts.gold, 0, ok))

\* tftp_client.put_bin_file(opts.silver)
UploadSilver ==
    \E ok \in BOOLEAN :
        UploadBlock("silver", tftp.opts.silver, "wrpc",
                    put_bin_file(tftp, tftp.opts.silver, BIN_ADDR, ok))

\* tftp_client.put_wrpc_filesys(opts.wrpc)
UploadWrpc ==
    \E ok \in BOOLEAN :
        UploadBlock("wrpc", tftp.opts.wrpc, "reboot",
                    put_wrpc_filesys(tftp, tftp.opts.wrpc, WRPC_ADDR, ok))

\* "if stage == 'reboot': tftp_client.reboot()"
Reboot ==
    /\ tftp.pc = "reboot"
    /\ \E ok \in BOOLEAN :
          tftp' = IF tftp.stage = "reboot"
                  THEN [tftp EXCEPT !.uploads = reboot(tftp, ok).uploads,
                                    !.performed = Append(@, "reboot"),
                                    !.pc = "ping"]
                  ELSE [tftp EXCEPT !.pc = "ping"]
    /\ ret' = "None"
    /\ call' = [NoCall EXCEPT !.op = "reboot", !.prev_op = call.op]
    /\ UNCHANGED <<config_vars, receiver, returned, hv_config, dest_ips, daq_params>>

\* the last Util.ping(opts.ip): 'fwver' and "Done." or exit(1)
Ping ==
    /\ tftp.pc = "ping"
    /\ \E status \in BOOLEAN :
          /\ tftp' = IF status THEN [tftp EXCEPT !.stage = "fwver", !.pc = "done"]
                     ELSE [tftp EXCEPT !.pc = "exit"]
          /\ ret' = IF status THEN "None" ELSE "SystemExit"
    /\ call' = [NoCall EXCEPT !.op = "ping", !.prev_op = call.op]
    /\ UNCHANGED <<config_vars, receiver, returned, hv_config, dest_ips, daq_params>>

Stages == <<"gold", "silver", "wrpc", "reboot">>
BinFiles == {NotGiven, Given(File(FALSE, 0)), Given(File(TRUE, 4096))}
WrpcFiles == BinFiles \cup {Given(File(TRUE, WRPC_SIZE)), Given(File(TRUE, WRPC_SIZE - 1))}

InitUpload ==
    /\ MAROC_regs = ZeroRegs
    /\ quabo_config = <<>>
    /\ sent = <<>>
    /\ ret = "none"
    /\ reply = NoReply
    /\ call = NoCall
    /\ pre_regs = MAROC_regs
    /\ swapped_regs = MAROC_regs
    /\ receiver = NoReceiver
    /\ returned = NoValue
    /\ hv_config = ZeroHv
    /\ dest_ips = NoDests
    /\ daq_params = NoParams
    /\ \E s \in 1 .. 4, gold \in BinFiles, silver \in BinFiles, wrpc \in WrpcFiles :
          tftp = [stage |-> Stages[s], pc |-> "gold", uploads |-> <<>>,
                  performed |-> <<>>,
                  opts |-> [stage |-> Stages[s], gold |-> gold, silver |-> silver,
                            wrpc |-> wrpc]]

NextUpload == UploadGold \/ UploadSilver \/ UploadWrpc \/ Reboot \/ Ping

SpecUpload == InitUpload /\ [][NextUpload]_vars

-----------------------------------------------------------------------------
(* Properties of the upload script *)

StageIndex(name) == CHOOSE k \in 1 .. 4 : Stages[k] = name

\* the upload of a performed stage went out to the device
UploadSent(name) ==
    \E k \in 1 .. Len(tftp.uploads) :
        /\ tftp.uploads[k].ok
        /\ tftp.uploads[k].by =
              (IF name = "wrpc" THEN "put_wrpc_filesys"
               ELSE IF name = "reboot" THEN "reboot" ELSE "put_bin_file")
        /\ name = "gold" => tftp.uploads[k].remote.offset = <<0>>
        /\ name = "silver" => tftp.uploads[k].remote.offset # <<0>>

\* C29: started at stage s the script performs stages from s onward in the
\* order gold, silver, wrpc, reboot and none before s; a stage is entered
\* only after the upload of every earlier performed stage was sent to the
\* device, so the reboot is never issued after a wrpc upload that was
\* skipped or rejected.
C29_StagesInOrder ==
    \A k \in 1 .. Len(tftp.performed) :
        /\ StageIndex(tftp.performed[k]) >= StageIndex(tftp.opts.stage)
        /\ \A j \in 1 .. (k - 1) :
              /\ StageIndex(tftp.performed[j]) < StageIndex(tftp.performed[k])
              /\ UploadSent(tftp.performed[j])

\* the wrpc file was one byte short: nothing was written to the wrpc region
\* and the reboot command went out
C29_RebootAfterSkippedWrpc ==
    /\ tftp.opts.stage = "wrpc" /\ tftp.opts.wrpc.size = WRPC_SIZE - 1
    /\ tftp.performed = <<"wrpc", "reboot">>
    /\ Len(tftp.uploads) = 1
    /\ tftp.uploads[1].by = "reboot" /\ tftp.uploads[1].remote.prefix = "/progdev"

\* the order alone: performed stages are in the fixed order, none before s
C29_OrderOnly ==
    \A k \in 1 .. Len(tftp.performed) :
        /\ StageIndex(tftp.performed[k]) >= StageIndex(tftp.opts.stage)
        /\ \A j \in 1 .. (k - 1) :
              StageIndex(tftp.performed[j]) < StageIndex(tftp.performed[k])

-----------------------------------------------------------------------------
(* The check operations that switch the high voltage on:                   *)
(* QuaboTest.CheckHKPktVals and SiPMSimTest.CheckPHPeaks.  Each makes its   *)
(* own QuaboConfig (cleared images, the configuration of the file) and its  *)
(* own receiver; an exception leaves the operation at the call that raised. *)

OPCODE_HK_DEST == 11
PH_IMAGE_US == 1000

MaxCheckRecv == 1
MaxThreshold == 1

\* the state of an operation on its way: the exception that ended it (or
\* "None"), the frames it sent, its receiver, the value it returns
Ctx(exc, frames, rcv, result) ==
    [ret |-> exc, frames |-> frames, rcv |-> rcv, result |-> result]

\* the next statement of an operation: skipped once an exception was raised
Then(ctx, F(_)) == IF ctx.ret # "None" THEN ctx ELSE F(ctx)

\* a statement that sends frames and raises exc ("None": it returns)
Sends(ctx, frames, exc) == [ctx EXCEPT !.frames = @ \o frames, !.ret = exc]

\* qc.SetHkPacketDest(): <<outcome, frames>>
set_hk_packet_dest(ips) ==
    IF "HK" \notin DOMAIN ips THEN <<"KeyError", <<>>>>
    ELSE Bind(ip_addr_str_to_bytes(gethostbyname(ips["HK"])),
              LAMBDA b : IF b.kind = "raise" THEN <<b.exc, <<>>>>
                         ELSE <<"None",
                                <<[i \in CmdIdx |->
                                     IF i >= 1 /\ i <= 4 THEN b.value[i - 1]
                                     ELSE make_cmd(OPCODE_HK_DEST)[i]]>>>>)

\* qc.SetDataPktDest(), the device answering with len bytes: <<outcome, frames>>
set_data_pkt_dest(ips, len) ==
    IF "PH" \notin DOMAIN ips \/ "MOVIE" \notin DOMAIN ips THEN <<"KeyError", <<>>>>
    ELSE Bind(<<ip_addr_str_to_bytes(gethostbyname(ips["PH"])),
                ip_addr_str_to_bytes(gethostbyname(ips["MOVIE"]))>>,
              LAMBDA b : IF b[1].kind = "raise" THEN <<b[1].exc, <<>>>>
                         ELSE IF b[2].kind = "raise" THEN <<b[2].exc, <<>>>>
                         ELSE <<IF recv_mac(len).kind = "timeout" THEN "TypeError"
                                ELSE "None",
                                <<dest_cmd(b[1].value, b[2].value)>>>>)

\* qc.SetHv(status): the frame
hv_cmd(status, hv) == hv_loop(make_cmd(OPCODE_HV), status, 15, hv, 0)

\* qc.SetMarocParams() on cleared images, the device behaving as dev:
\* <<outcome, frames>>; the True or False it returns is not looked at
set_maroc_params(config, dev) ==
    Bind(make_maroc_cmd(ZeroRegs, zero_cmd, config, 1),
         LAMBDA r : IF r[1] # "None" THEN <<r[1], <<>>>>
                    ELSE IF recv(r[3], dev).kind = "timeout"
                    THEN <<"TypeError", <<r[3]>>>>
                    ELSE <<"None", <<r[3]>>>>)

\* qc.DaqParamsConfig(DAQ_PARAMS(False, 1000, False, do_ph, True)): <<outcome, frames>>
daq_params_config(do_ph) ==
    Bind(daq_cmd([DAQ_PARAMS(FALSE, PH_IMAGE_US, FALSE, do_ph, TRUE)
                     EXCEPT !.image_us = @ - 1]),
         LAMBDA r : IF r.kind = "raise" THEN <<r.exc, <<>>>>
                    ELSE <<"None", <<r.value>>>>)

\* RecvData(n) of a new receiver of the class: the receiver and the outcome
recv_data(ctx, class, arrivals, bufsize) ==
    Bind(recv_loop(arrivals, 1, UNBOUND, UNBOUND,
                   [k \in 1 .. Len(arrivals) |-> Zero],
                   [k \in 1 .. Len(arrivals) |-> 0], bufsize),
         LAMBDA r : [ctx EXCEPT
                       !.rcv = [class |-> class, data |-> r.data,
                                timestamp |-> r.timestamp],
                       !.ret = IF r.ret = "UnboundLocalError" THEN r.ret ELSE "None"])

\* the values of actual_results under the keys of the expected items
ActualOf(expected, rec) ==
    [n \in 1 .. Len(expected) |->
        IF expected[n].key \in DOMAIN rec THEN IntValue(rec[expected[n].key])
        ELSE Missing]

\* "hkpkt = hk.ParseData(); return self.CheckResults(expected_results, hkpkt[0])"
hk_check(ctx, expected) ==
    Bind(hk_parse(ctx.rcv.data, ctx.rcv.timestamp),
         LAMBDA p :
            IF p.kind = "raise" THEN [ctx EXCEPT !.ret = p.exc]
            ELSE IF Len(p.value) = 0 THEN [ctx EXCEPT !.ret = "IndexError"]
            ELSE Bind(CheckResults(expected, ActualOf(expected, p.value[1])),
                      LAMBDA c : IF c.kind = "raise" THEN [ctx EXCEPT !.ret = c.exc]
                                 ELSE [ctx EXCEPT !.result = c]))

\* QuaboTest.CheckHKPktVals() as a function of what the one recvfrom meets
check_hk_pkt_vals(ips, hv, expected, arrival) ==
    LET dest == set_hk_packet_dest(ips)
        c1 == Sends(Ctx("None", <<>>, NoReceiver, NoValue), dest[2], dest[1])
        c2 == Then(c1, LAMBDA c : Sends(c, <<hv_cmd("on", hv)>>, "None"))
        c3 == Then(c2, LAMBDA c : recv_data(c, "HKRecv", <<arrival>>, HK_PKTLEN))
        c4 == Then(c3, LAMBDA c : Sends(c, <<hv_cmd("off", hv)>>, "None"))
    IN  Then(c4, LAMBDA c : hk_check(c, expected))

RECURSIVE SumRange(_, _, _)
\* s[lo] + ... + s[hi]
SumRange(s, lo, hi) ==
    IF lo > hi THEN 0
    ELSE IF lo = hi THEN s[lo]
    ELSE SumRange(s, lo, (lo + hi) \div 2) + SumRange(s, ((lo + hi) \div 2) + 1, hi)

Sum(s) == SumRange(s, 1, Len(s))

\* the number of samples d['data'][i] > PHThreshold + np.mean(d['data'])
npeaks(data, threshold) ==
    Bind(Sum(data),
         LAMBDA total :
            Cardinality({i \in 1 .. Len(data) :
                            Len(data) * data[i] > Len(data) * threshold + total}))

\* "phpkt = ph.ParseData()" and the comparison of np.mean(npeaks) with e_val
\* (the mean of no packet is nan, which differs from every e_val)
peaks_check(ctx, e_val, threshold) ==
    Bind(sci_parse(ctx.rcv.data, ctx.rcv.timestamp, "ph"),
         LAMBDA p :
            IF p.kind = "raise" THEN [ctx EXCEPT !.ret = p.exc]
            ELSE [ctx EXCEPT !.result =
                    Value(/\ Len(p.value) > 0
                          /\ Sum([k \in 1 .. Len(p.value) |->
                                    npeaks(p.value[k]["data"], threshold)])
                                = e_val * Len(p.value))])

\* SiPMSimTest.CheckPHPeaks() after the test of 'valid'
check_ph_peaks(ips, hv, config, e_val, threshold, len, dev, arrivals) ==
    LET dest == set_data_pkt_dest(ips, len)
        c1 == Sends(Ctx("None", <<>>, NoReceiver, NoValue), dest[2], dest[1])
        c2 == Then(c1, LAMBDA c : Sends(c, <<hv_cmd("on", hv)>>, "None"))
        c3 == Then(c2, LAMBDA c : Bind(set_maroc_params(config, dev),
                                       LAMBDA m : Sends(c, m[2], m[1])))
        c4 == Then(c3, LAMBDA c : Bind(daq_params_config(TRUE),
                                       LAMBDA q : Sends(c, q[2], q[1])))
        c5 == Then(c4, LAMBDA c : recv_data(c, "DataRecv", arrivals, PKTLEN["16bit"]))
        c6 == Then(c5, LAMBDA c : Sends(c, <<hv_cmd("off", hv)>>, "None"))
        c7 == Then(c6, LAMBDA c : Bind(daq_params_config(FALSE),
                                       LAMBDA q : Sends(c, q[2], q[1])))
    IN  Then(c7, LAMBDA c : peaks_check(c, e_val, threshold))

\* the end of a check operation: its frames went out, its receiver holds
\* what it received, and it returned or raised
Finish(op, ctx) ==
    /\ sent' = sent \o ctx.frames
    /\ receiver' = ctx.rcv
    /\ ret' = IF ctx.ret # "None" THEN ctx.ret
              ELSE IF ctx.result.value THEN "True" ELSE "False"
    /\ returned' = [kind |-> IF ctx.ret # "None" THEN "raise" ELSE "value",
                    value |-> ctx.ret = "None" /\ ctx.result.value]
    /\ UNCHANGED <<MAROC_regs, quabo_config, reply, pre_regs, swapped_regs, ext_vars>>

\* QuaboTest.CheckHKPktVals()
CheckHKPktVals(expected, arrival) ==
    /\ \E ctx \in {check_hk_pkt_vals(dest_ips, hv_config, expected, arrival)} :
          Finish("CheckHKPktVals", ctx)
    /\ call' = [NoCall EXCEPT !.op = "CheckHKPktVals", !.nsent = Len(sent),
                        !.expected = expected, !.arrivals = <<arrival>>]

\* SiPMSimTest.CheckPHPeaks(): e is expected_results['ph_npeak']
CheckPHPeaks(e, threshold, len, dev, arrivals) ==
    /\ IF ~e.valid
       THEN /\ ret' = "True"
            /\ returned' = [kind |-> "value", value |-> TRUE]
            /\ UNCHANGED <<config_vars, receiver, ext_vars>>
       ELSE \E ctx \in {check_ph_peaks(dest_ips, hv_config, quabo_config, e.val.value,
                                       threshold, len, dev, arrivals)} :
               Finish("CheckPHPeaks", ctx)
    /\ call' = [NoCall EXCEPT !.op = "CheckPHPeaks", !.nsent = Len(sent),
                        !.expected = <<e>>, !.arrivals = arrivals,
                        !.value = len, !.mode = dev.kind,
                        !.echo = Cardinality(dev.diff)]

\* expected_results['hk_vals']: one item on the tag byte or on an unknown key
ExpectedHK ==
    {<<[key |-> k, valid |-> v, val |-> IntValue(x), deviation |-> d]>> :
        k \in {"tag", "nokey"}, v \in BOOLEAN, x \in {1, 2}, d \in 0 .. MaxDeviation}

\* expected_results['ph_npeak']
ExpectedPeaks ==
    {[valid |-> v, val |-> IntValue(x), deviation |-> 0] : v \in BOOLEAN, x \in {0, 128}}

\* the device on a register command: no reply, the echo, a changed echo
EchoDevices ==
    {Device("silent", {}, 0), Device("echo", {}, FRAME_BYTES),
     Device("echo", {4}, FRAME_BYTES)}

\* QuaboTest / SiPMSimTest after __init__: the files give a register
\* configuration, a setting for every HV channel and the three destinations
InitCheck ==
    /\ MAROC_regs = ZeroRegs
    /\ quabo_config \in StartConfigs
    /\ sent = <<>>
    /\ ret = "none"
    /\ reply = NoReply
    /\ call = NoCall
    /\ pre_regs = MAROC_regs
    /\ swapped_regs = MAROC_regs
    /\ receiver = NoReceiver
    /\ returned = NoValue
    /\ hv_config = [i \in HvChans |-> 257 * (i + 1) + 256]
    /\ dest_ips = [k \in {"PH", "MOVIE", "HK"} |->
                      << <<1, 9, 2>>, <<1, 6, 8>>, <<1>>, <<1, 0, 0>> >>]
    /\ daq_params = NoParams
    /\ tftp = NoTftp

RunCheckHKPktVals ==
    /\ call.op = "none"
    /\ \E expected \in ExpectedHK, arrival \in Arrivals("HKRecv") :
          CheckHKPktVals(expected, arrival)

RunCheckPHPeaks ==
    /\ call.op = "none"
    /\ \E e \in ExpectedPeaks, threshold \in 0 .. MaxThreshold, len \in ReplyLens,
          dev \in EchoDevices, n \in 1 .. MaxCheckRecv :
          \E arrivals \in [1 .. n -> Arrivals("DataRecv")] :
              CheckPHPeaks(e, threshold, len, dev, arrivals)

NextCheck == RunCheckHKPktVals \/ RunCheckPHPeaks

SpecCheck == InitCheck /\ [][NextCheck]_vars

-----------------------------------------------------------------------------
(* Properties of the check operations *)

\* the frames the last operation sent
OpFrames == SubSeq(sent, call.nsent + 1, Len(sent))

IsHvOn(f) == f[0] = 2 /\ \E i \in 2 .. 9 : f[i] # 0
IsHvOff(f) == f[0] = 2 /\ \A i \in 2 .. 9 : f[i] = 0

\* every HV-on frame of the last operation is followed by an HV-off frame
HvOffFollows ==
    \A k \in 1 .. Len(OpFrames) :
        IsHvOn(OpFrames[k]) =>
            \E j \in (k + 1) .. Len(OpFrames) : IsHvOff(OpFrames[j])

\* C24: in every check operation that turns the high voltage on, an HV-off
\* command is sent after the HV-on command before the operation ends, on
\* every path: a receive timeout, a datagram from an unexpected sender, a
\* missing or mismatching echo reply.
C24_HvOffOnEveryPath ==
    call.op \in {"CheckHKPktVals", "CheckPHPeaks"} => HvOffFollows

\* CheckHKPktVals met a receive timeout: it raised UnboundLocalError after the
\* HV-on frame and sent nothing more
C24_HvLeftOn ==
    /\ call.op = "CheckHKPktVals"
    /\ call.arrivals[1].kind = "timeout"
    /\ ret = "UnboundLocalError"
    /\ Len(OpFrames) = 2 /\ IsHvOn(OpFrames[2])

\* the paths on which the operation gets past RecvData do send HV-off: a
\* datagram from the Quabo or from an unexpected sender, and an echo that
\* differs from the command
C24_HvOffWhenReceived ==
    (/\ call.op \in {"CheckHKPktVals", "CheckPHPeaks"}
     /\ \A k \in 1 .. Len(call.arrivals) : call.arrivals[k].kind = "datagram"
     /\ (call.op = "CheckPHPeaks" => call.mode = "echo"))
        => HvOffFollows

=============================================================================
